---------------------------- MODULE Spec2Model ----------------------------
(***************************************************************************)
(* A model of emojifs: the Muxer (src/emojifs/muxer.py), which glues       *)
(* several FUSE filesystems into one tree, and the two backend adapters    *)
(* (src/emojifs/slack.py, src/emojifs/discord.py) with their metadata      *)
(* caches, rate-limited request helper and buffered writes.                *)
(*                                                                         *)
(* Strings are sequences of character codes, so that prefix tests, sorting *)
(* and splitting are computed as Python computes them.                     *)
(***************************************************************************)
EXTENDS Integers, Sequences, FiniteSets, TLC

(***************************************************************************)
(* Bounds of the model.                                                    *)
(***************************************************************************)
MaxLen == 5        \* longest mountpoint prefix / path given to the Muxer
MaxMounts == 3     \* most entries of a mount map

(***************************************************************************)
(* Characters.                                                             *)
(***************************************************************************)
Slash == 47                         \* '/'
Alphabet == {Slash, 97}             \* '/', 'a'

(***************************************************************************)
(* Python str helpers, over sequences of character codes.                  *)
(***************************************************************************)
Min2(a, b) == IF a <= b THEN a ELSE b
Max2(a, b) == IF a >= b THEN a ELSE b

\* s[i:] with 0-based i (Python slice, clipped)
SliceFrom(s, i) == SubSeq(s, Min2(i, Len(s)) + 1, Len(s))

\* s[i:j] with 0-based i, j (Python slice, clipped)
Slice(s, i, j) == SubSeq(s, Min2(i, Len(s)) + 1, Min2(j, Len(s)))

\* str.startswith
startswith(s, p) == Len(p) <= Len(s) /\ SubSeq(s, 1, Len(p)) = p

\* str.endswith, for a one-character suffix
endswith(s, c) == Len(s) > 0 /\ s[Len(s)] = c

\* a < b in Python's (code point, lexicographic) string order
StrLT(a, b) ==
    \E i \in 1..(Len(b)) :
        /\ \A j \in 1..(i-1) : j <= Len(a) /\ a[j] = b[j]
        /\ \/ i = Len(a) + 1
           \/ i <= Len(a) /\ a[i] < b[i]

\* every string over Alphabet of length lo..hi
Strings(lo, hi) == UNION {[1..n -> Alphabet] : n \in lo..hi}

\* absolute paths: the strings that start with '/'
AbsPaths(hi) == {s \in Strings(1, hi) : s[1] = Slash}

\* mountpoint prefixes as the startup driver builds them ("/discord",
\* "/slack/<name>"): absolute, no empty segment, no trailing '/' (but "/" itself)
MountPrefixes(hi) ==
    {s \in AbsPaths(hi) :
        /\ \A i \in 1..(Len(s)-1) : ~(s[i] = Slash /\ s[i+1] = Slash)
        /\ (Len(s) > 1 => s[Len(s)] # Slash)}

\* sorted(S) for a set of strings
RECURSIVE sorted(_)
sorted(S) ==
    IF S = {} THEN <<>>
    ELSE LET m == CHOOSE x \in S : \A y \in S \ {x} : StrLT(x, y)
         IN <<m>> \o sorted(S \ {m})

\* s.split(sep) for a one-character separator: the list of (possibly empty) fields
RECURSIVE split(_, _)
split(s, sep) ==
    IF \A i \in 1..Len(s) : s[i] # sep THEN <<s>>
    ELSE LET i == CHOOSE k \in 1..Len(s) :
                      s[k] = sep /\ \A j \in 1..(k-1) : s[j] # sep
         IN <<SubSeq(s, 1, i-1)>> \o split(SubSeq(s, i+1, Len(s)), sep)

\* filter(len, l): drop the empty fields
RECURSIVE filter_len(_)
filter_len(l) ==
    IF l = <<>> THEN <<>>
    ELSE (IF Len(Head(l)) > 0 THEN <<Head(l)>> ELSE <<>>) \o filter_len(Tail(l))

\* itertools.accumulate(l, lambda *x: '/'.join(x)): the running joins
RECURSIVE accumulate_join(_)
accumulate_join(l) ==
    IF l = <<>> THEN <<>>
    ELSE IF Len(l) = 1 THEN <<l[1]>>
    ELSE LET front == accumulate_join(SubSeq(l, 1, Len(l)-1))
         IN front \o <<front[Len(front)] \o <<Slash>> \o l[Len(l)]>>

Range(f) == {f[i] : i \in DOMAIN f}

\* the subsets of S with at most n elements
RECURSIVE SubsetsUpTo(_, _)
SubsetsUpTo(S, n) ==
    IF n = 0 THEN {{}}
    ELSE LET smaller == SubsetsUpTo(S, n-1)
         IN smaller \cup {T \cup {x} : T \in smaller, x \in S}

(***************************************************************************)
(* State.                                                                  *)
(***************************************************************************)
VARIABLES
    map_arg,     \* the dict handed to Muxer(map): its keys; the value of key k is Adapter(k)
    muxer,       \* the Muxer object: status, _mountpoints, _intermediates
    call         \* the last operation invoked on the Muxer and its outcome

muxvars == <<map_arg, muxer, call>>

VARIABLES
    backend,            \* "slack" or "discord": the class of the adapter
    limited,            \* whether the backend answers requests with 429 in this run
    now,                \* time.time()
    write_buffers,      \* self._write_buffers: path -> content of the BytesIO
    cached_metadata,    \* Slack.__cached_metadata (TTLCache, maxsize 1)
    membership_cache,   \* Discord._membership_cache (TTLCache, maxsize 1)
    emojis_cache,       \* Discord._emojis_cache (TTLCache, maxsize 100)
    retry_after,        \* self._retry_after: URL -> time
    bytes_cache,        \* the LRU cache of utils.get_emoji_bytes: URL -> bytes
    length_cache,       \* the LRU cache of utils.get_content_length: URL -> size
    remote,             \* what the backend holds: collection -> name -> emoji
    net,                \* the network calls of the operation in progress
    ret,                \* the operation in progress and its outcome
    threads             \* the FUSE worker threads inside a cached listing or a mutation

vars == <<backend, limited, now, write_buffers, cached_metadata, membership_cache,
          emojis_cache, retry_after, bytes_cache, length_cache, remote, net, ret, threads>>

allvars == <<muxvars, vars>>

\* The filesystem object mounted under prefix k; every prefix has its own.
Adapter(k) == <<"fs", k>>

NoCall == [op |-> "none"]

(***************************************************************************)
(* Muxer.__init__                                                          *)
(***************************************************************************)
\* the intermediate directories implied by one mountpoint
intermediates_of(item) ==
    {<<Slash>> \o x : x \in Range(accumulate_join(filter_len(split(item, Slash))))}

\* pairwise(map): the adjacent pairs of the sorted mountpoints
pairwise(l) == {<<l[i], l[i+1]>> : i \in 1..(Len(l)-1)}

\* the assert of __init__
no_nested_prefix_swapped(mountpoints) ==
    ~ \E p \in pairwise(mountpoints) : startswith(p[1], p[2])
no_nested_prefix(mountpoints) ==
    ~ \E p \in pairwise(mountpoints) : startswith(p[2], p[1])

MuxerInit ==
    /\ muxer.status = "new"
    /\ LET mountpoints == sorted(map_arg)
           inter == ({<<Slash>>} \cup UNION {intermediates_of(m) : m \in map_arg})
                        \ map_arg
       IN muxer' = [status |-> IF no_nested_prefix(mountpoints) THEN "ok"
                                ELSE "AssertionError",
                    mountpoints |-> mountpoints,
                    intermediates |-> inter]
    /\ UNCHANGED <<map_arg, call>>
    /\ UNCHANGED vars

(***************************************************************************)
(* Muxer._map_path                                                         *)
(***************************************************************************)
\* bisect.bisect_left, which bisect_right is not
RECURSIVE bisect_left(_, _, _, _)
bisect_left(a, x, lo, hi) ==
    IF lo < hi
    THEN LET mid == (lo + hi) \div 2
         IN IF StrLT(a[mid + 1], x)
            THEN bisect_left(a, x, mid + 1, hi)
            ELSE bisect_left(a, x, lo, mid)
    ELSE lo

\* bisect.bisect_right(a, x): binary search, 0-based lo and hi
RECURSIVE bisect_right(_, _, _, _)
bisect_right(a, x, lo, hi) ==
    IF lo < hi
    THEN LET mid == (lo + hi) \div 2
         IN IF StrLT(x, a[mid + 1])
            THEN bisect_right(a, x, lo, mid)
            ELSE bisect_right(a, x, mid + 1, hi)
    ELSE lo

\* find_le(a, x): the rightmost value less than or equal to x, or ValueError
find_le(a, x) ==
    LET i == bisect_right(a, x, 0, Len(a))
    IN IF i # 0 THEN [found |-> TRUE, value |-> a[i]]
       ELSE [found |-> FALSE, value |-> <<>>]

\* _map_path(path): (stripped path, delegated fs), or ValueError
map_path(path) ==
    LET c == find_le(muxer.mountpoints, path)
    IN IF ~ c.found THEN [error |-> "ValueError", path |-> <<>>, fs |-> <<>>]
       ELSE IF ~ startswith(path, c.value)
            THEN [error |-> "ValueError", path |-> <<>>, fs |-> <<>>]
       ELSE IF path = c.value
            THEN [error |-> "none", path |-> <<Slash>>, fs |-> Adapter(c.value)]
       ELSE [error |-> "none", path |-> SliceFrom(path, Len(c.value)),
             fs |-> Adapter(c.value)]

(***************************************************************************)
(* The operations of the Muxer.  Each leaves in `call` what it did: served *)
(* a synthetic directory, delegated to an adapter, or raised.              *)
(***************************************************************************)
Dot == <<46>>
DotDot == <<46, 46>>

Served(op, path, outcome, names) ==
    [op |-> op, path |-> path, outcome |-> outcome, names |-> names,
     fs |-> <<>>, fspath |-> <<>>]

Delegated(op, path, m) ==
    [op |-> op, path |-> path, outcome |-> "delegated", names |-> <<>>,
     fs |-> m.fs, fspath |-> m.path]

\* an operation that calls _map_path without catching its ValueError
delegate(op, path) ==
    LET m == map_path(path)
    IN IF m.error = "none" THEN Delegated(op, path, m)
       ELSE Served(op, path, m.error, <<>>)

\* find_children without its maxdepth=1 condition
find_children_anydepth(ll, path) ==
    LET keep(x) == startswith(x, path) /\ x # <<Slash>>
        kept == SelectSeq(ll, keep)
    IN [i \in 1..Len(kept) |-> SliceFrom(kept[i], Len(path))]

\* find_children(ll) inside readdir, for the parent path with its trailing '/'
find_children(ll, path) ==
    LET keep(x) == /\ startswith(x, path)
                   /\ \A i \in 1..Len(SliceFrom(x, Len(path))) :
                          SliceFrom(x, Len(path))[i] # Slash
                   /\ x # <<Slash>>
        kept == SelectSeq(ll, keep)
    IN [i \in 1..Len(kept) |-> SliceFrom(kept[i], Len(path))]

muxer_getattr(path) ==
    IF path \in muxer.intermediates
    THEN Served("getattr", path, "dir", <<>>)
    ELSE LET m == map_path(path)
         IN IF m.error = "none" THEN Delegated("getattr", path, m)
            ELSE Served("getattr", path, "ENOENT", <<>>)

muxer_readdir(path) ==
    IF path \in muxer.intermediates
    THEN LET p == IF endswith(path, Slash) THEN path ELSE path \o <<Slash>>
         IN Served("readdir", path, "listing",
                   <<Dot, DotDot>> \o find_children(sorted(muxer.intermediates), p)
                                   \o find_children(muxer.mountpoints, p))
    ELSE delegate("readdir", path)

\* The Muxer defines neither listxattr nor getxattr: fuse.Operations lists
\* nothing and raises ENOTSUP, whatever the path
muxer_listxattr(path) == Served("listxattr", path, "nothing", <<>>)
muxer_getxattr(path) == Served("getxattr", path, "ENOTSUP", <<>>)

Paths == AbsPaths(MaxLen)

\* An operation is invoked on a constructed Muxer once the previous one has returned.
Do(c) ==
    /\ muxer.status = "ok"
    /\ call = NoCall
    /\ call' = c
    /\ UNCHANGED <<map_arg, muxer>>
    /\ UNCHANGED vars

\* The operation returns to the FUSE layer.
Return ==
    /\ call # NoCall
    /\ call' = NoCall
    /\ UNCHANGED <<map_arg, muxer>>
    /\ UNCHANGED vars

Getattr  == \E path \in Paths : Do(muxer_getattr(path))
Readdir  == \E path \in Paths : Do(muxer_readdir(path))
Readlink == \E path \in Paths : Do(delegate("readlink", path))
Read     == \E path \in Paths : Do(delegate("read", path))
Open     == \E path \in Paths : Do(delegate("open", path))
Unlink   == \E path \in Paths : Do(delegate("unlink", path))
Create   == \E path \in Paths : Do(delegate("create", path))
Write    == \E path \in Paths : Do(delegate("write", path))
Release  == \E path \in Paths : Do(delegate("release", path))
Truncate == \E path \in Paths : Do(delegate("truncate", path))
Symlink  == \E path \in Paths : Do(delegate("symlink", path))
Listxattr == \E path \in Paths : Do(muxer_listxattr(path))
Getxattr == \E path \in Paths : Do(muxer_getxattr(path))

\* no adapter is under observation
NoAdapter ==
    /\ backend = "none"
    /\ limited = FALSE
    /\ now = 0
    /\ write_buffers = <<>>
    /\ cached_metadata = <<>>
    /\ membership_cache = <<>>
    /\ emojis_cache = <<>>
    /\ retry_after = <<>>
    /\ bytes_cache = <<>>
    /\ length_cache = <<>>
    /\ remote = <<>>
    /\ net = <<>>
    /\ ret = [op |-> "none"]
    /\ threads = <<>>

InitMuxer ==
    /\ map_arg \in SubsetsUpTo(MountPrefixes(MaxLen), MaxMounts)
    /\ muxer = [status |-> "new", mountpoints |-> <<>>, intermediates |-> {}]
    /\ call = NoCall
    /\ NoAdapter

NextMuxer ==
    \/ MuxerInit
    \/ Getattr
    \/ Readdir
    \/ Readlink
    \/ Read
    \/ Open
    \/ Unlink
    \/ Create
    \/ Write
    \/ Release
    \/ Truncate
    \/ Symlink
    \/ Listxattr
    \/ Getxattr
    \/ Return

SpecMuxer == InitMuxer /\ [][NextMuxer]_allvars
(***************************************************************************)
(* The backend adapters: Slack (slack.py) and Discord (discord.py).        *)
(*                                                                         *)
(* A behaviour of Spec is one adapter object serving a sequence of FUSE    *)
(* operations.  Each operation is one action: it runs the whole handler,   *)
(* with the backend's answers to its network calls drawn from a plan.      *)
(***************************************************************************)
MaxBuf == 2        \* longest content written to a buffer, largest offset and size
MaxRetries == 1    \* most rate-limit answers without a hint to one request
MaxClock == 600    \* the clock stops here

TTL == 600         \* ttl of the metadata caches
DefaultRetry == 60 \* retry delay when the answer carries no hint

Bytes == {0, 1}

\* dict helpers
Put(f, k, v) == [x \in DOMAIN f \cup {k} |-> IF x = k THEN v ELSE f[x]]
Drop(f, k) == [x \in DOMAIN f \ {k} |-> f[x]]
EmptyDict == [x \in {} |-> 0]

\* a cache that still serves an entry at the instant of its expiry
LiveAtExpiry(cache, k, t) == k \in DOMAIN cache /\ t <= cache[k].expires
\* TTLCache: an entry is served while the clock is before its expiry
Live(cache, k, t) == k \in DOMAIN cache /\ t < cache[k].expires
\* the entries the cache still shows at time t
Unexpired(cache, t) == [x \in {y \in DOMAIN cache : t < cache[y].expires} |-> cache[x]]
Stored(value, t) == [value |-> value, expires |-> t + TTL]

(***************************************************************************)
(* The world an operation runs in: the adapter's fields, the backend, the  *)
(* clock, the calls made so far and the plan of the backend's answers.     *)
(* A plan gives the answers to one of the operation's requests (the        *)
(* `at`-th): k rate-limit answers without hint, then `final`; every other  *)
(* request succeeds at once.                                               *)
(***************************************************************************)
AllOk == [at |-> 1, k |-> 0, final |-> "ok"]
Plans ==
    {AllOk} \cup
    (IF limited
     THEN [at : 1..3, k : 1..MaxRetries, final : {"ok"}] \cup [at : 1..3, k : {0}, final : {"429h"}]
     ELSE [at : 1..3, k : {0}, final : {"err"}])

World(plan) ==
    [now |-> now, ra |-> retry_after, net |-> <<>>, slot |-> 0, plan |-> plan,
     bufs |-> write_buffers, meta |-> cached_metadata,
     members |-> membership_cache, emojis |-> emojis_cache,
     lru |-> bytes_cache, lens |-> length_cache, remote |-> remote]

\* the answers to the next request
Script(w) ==
    IF w.plan.at = w.slot + 1 THEN [k |-> w.plan.k, final |-> w.plan.final]
    ELSE [k |-> 0, final |-> "ok"]

\* what requests sends for the arguments: a file object is read from its
\* current position to its end, and stays at its end
Wire(args) == args
Consumed(args) == IF "image" \in DOMAIN args THEN [args EXCEPT !.image = <<>>] ELSE args

Sent(w, method, url, args, t, status) ==
    [slot |-> w.slot, method |-> method, url |-> url, args |-> Wire(args),
     at |-> t, status |-> status]

Fail(w, e) == [w |-> w, err |-> e, value |-> <<>>]
Done(w, v) == [w |-> w, err |-> "none", value |-> v]

\* r, then K on what r returned unless r raised
Then(r, K(_)) == IF r.err # "none" THEN r ELSE K(r)
\* K on v
Let(v, K(_)) == K(v)

(***************************************************************************)
(* URLs.  An f-string f"{base}{rest}" puts the base in front of the rest;  *)
(* a URL is the sequence of bases in front and the route they lead to.     *)
(***************************************************************************)
Route(route, guild, emoji) ==
    [prefix |-> <<>>, route |-> route, guild |-> guild, emoji |-> emoji]
WithBase(base, u) == [u EXCEPT !.prefix = <<base>> \o @]

\* a URL the backend knows: one base in front of a route
WellFormed(u) == Len(u.prefix) = 1

(***************************************************************************)
(* Slack._request                                                          *)
(***************************************************************************)
slack_url(method) == WithBase("https://x.slack.com/api/", Route(method, <<>>, <<>>))

\* _request(method, url, **kwargs) answered by script: k rate-limit answers, then final
RECURSIVE slack_request_rec(_, _, _, _, _)
slack_request_rec(w, method, url, args, script) ==
    LET t == Max2(w.now, IF url \in DOMAIN w.ra THEN w.ra[url] ELSE 0)
        status == IF script.k > 0 THEN "429" ELSE script.final
        w1 == [w EXCEPT !.now = t,
                        !.net = Append(@, Sent(w, method, url, args, t, status))]
    IN CASE status = "429" ->
              slack_request_rec([w1 EXCEPT !.ra = Put(@, url, t + DefaultRetry)],
                                method, url, Consumed(args),
                                [script EXCEPT !.k = @ - 1])
         [] status = "429h" -> Fail(w1, "TypeError")
         [] status = "err" -> Fail(w1, "HTTPError")
         [] OTHER -> Done(w1, "resp")

slack_request_noting(w, method, url, args) ==
    Let(slack_request_rec([w EXCEPT !.slot = @ + 1], method, url, args, Script(w)),
        LAMBDA r : IF r.err = "HTTPError"
                   THEN [r EXCEPT !.w = [r.w EXCEPT !.ra = Put(@, url, r.w.now + DefaultRetry)]]
                   ELSE r)
slack_request(w, method, url, args) ==
    slack_request_rec([w EXCEPT !.slot = @ + 1], method, url, args, Script(w))

\* The backend's answer to emoji.adminList for a page: the number of pages
\* of the listing and the emoji of this page.  The backend orders the emoji
\* by name and gives one emoji per page.
slack_admin_list(w, page) ==
    LET names == sorted(DOMAIN w.remote["team"])
    IN [paging |-> [pages |-> Len(names)],
        emoji |-> IF page + 1 \in 1..Len(names)
                  THEN <<w.remote["team"][names[page + 1]]>> ELSE <<>>]

\* the loop of _request_all_pages: pages is j['paging']['pages'] of the
\* last answer, and 1 before the first
RECURSIVE slack_request_pages(_, _, _, _, _, _)
slack_request_pages(w, method, url, pages_fetched, pages, accum) ==
    IF ~ (pages_fetched < pages) THEN Done(w, accum)
    ELSE Then(slack_request(w, method, url, [params |-> [page |-> pages_fetched]]),
              LAMBDA r :
                  Let(slack_admin_list(r.w, pages_fetched),
                      LAMBDA j : slack_request_pages(r.w, method, url, pages_fetched + 1,
                                                     j.paging.pages, accum \o j.emoji)))

\* a loop that counts the page it is about to fetch as fetched
slack_request_all_pages_counting(w, method, url) ==
    slack_request_pages(w, method, url, 1, 1, <<>>)
\* _request_all_pages
slack_request_all_pages(w, method, url) ==
    slack_request_pages(w, method, url, 0, 1, <<>>)

\* {e['name']: e for e in r}
by_name(r) ==
    [n \in {r[i].name : i \in 1..Len(r)} |->
        r[CHOOSE i \in 1..Len(r) : r[i].name = n /\ \A k \in (i+1)..Len(r) : r[k].name # n]]

\* _get_all_emoji: the cached listing, fetched when the cache has no live entry
slack_get_all_emoji(w) ==
    IF Live(w.meta, "self", w.now) THEN Done(w, w.meta["self"].value)
    ELSE Then(slack_request_all_pages(w, "GET", slack_url("emoji.adminList")),
              LAMBDA r : Done([r.w EXCEPT !.meta = Put(EmptyDict, "self",
                                                       Stored(by_name(r.value), r.w.now))],
                              by_name(r.value)))

\* _invalidate_metadata
slack_keep_metadata(w) == w
slack_invalidate_metadata(w) == [w EXCEPT !.meta = EmptyDict]

\* the backend's emoji of a name
SlackEmoji(name, alias_for) ==
    [name |-> name, ext |-> <<112, 110, 103>>, is_alias |-> alias_for # <<>>,
     alias_for |-> alias_for]

\* _upload_emoji(name, file): the request, and the invalidation in its finally
slack_upload_emoji(w, name, content) ==
    Let(slack_request(w, "POST", slack_url("emoji.add"),
                      [data |-> [mode |-> "data", name |-> name], image |-> content]),
        LAMBDA r :
            [r EXCEPT !.w = slack_invalidate_metadata(
                IF r.err = "none"
                THEN [r.w EXCEPT !.remote["team"] = Put(@, name, SlackEmoji(name, <<>>))]
                ELSE r.w)])

\* _delete_emoji(name)
slack_delete_emoji(w, name) ==
    Let(slack_request(w, "POST", slack_url("emoji.remove"), [data |-> [name |-> name]]),
        LAMBDA r :
            [r EXCEPT !.w = slack_invalidate_metadata(
                IF r.err = "none"
                THEN [r.w EXCEPT !.remote["team"] = Drop(@, name)]
                ELSE r.w)])

\* _alias_emoji(src, dst)
slack_alias_emoji(w, src, dst) ==
    Let(slack_request(w, "POST", slack_url("emoji.add"),
                      [data |-> [mode |-> "alias", name |-> dst, alias_for |-> src]]),
        LAMBDA r :
            [r EXCEPT !.w = slack_invalidate_metadata(
                IF r.err = "none"
                THEN [r.w EXCEPT !.remote["team"] = Put(@, dst, SlackEmoji(dst, src))]
                ELSE r.w)])

(***************************************************************************)
(* BytesIO                                                                 *)
(* Every handler seeks before it reads or writes, so the position of a     *)
(* buffer between operations is dead state; a buffer is its content.       *)
(***************************************************************************)
Zeros(n) == [i \in 1..n |-> 0]

\* a write that closes the gap past the end instead of filling it
bytesio_write_appending(b, offset, data) ==
    IF offset > Len(b) THEN b \o data
    ELSE SubSeq(b, 1, offset) \o data \o SubSeq(b, offset + Len(data) + 1, Len(b))
\* b.seek(offset); b.write(data): the gap past the end is filled with zeros,
\* and writing nothing changes nothing
bytesio_write(b, offset, data) ==
    IF Len(data) = 0 THEN b
    ELSE LET padded == IF offset > Len(b) THEN b \o Zeros(offset - Len(b)) ELSE b
         IN SubSeq(padded, 1, offset) \o data
                \o SubSeq(padded, offset + Len(data) + 1, Len(padded))

\* b.seek(offset); b.read(size)
bytesio_read_whole(b, offset, size) == b
bytesio_read(b, offset, size) == Slice(b, offset, offset + size)

\* b.seek(0); b.truncate(length): never extends
bytesio_truncate(b, length) == IF length < Len(b) THEN SubSeq(b, 1, length) ELSE b

(***************************************************************************)
(* utils.get_emoji_bytes: the bytes of a URL, through an LRU cache         *)
(***************************************************************************)
\* what the CDN serves for a URL
ContentOf(url) == <<1, 0, 1>>

get_emoji_bytes(w, url) ==
    IF url \in DOMAIN w.lru THEN Done(w, w.lru[url])
    ELSE LET script == Script(w)
             w1 == [w EXCEPT !.slot = @ + 1,
                             !.net = Append(@, Sent([w EXCEPT !.slot = @ + 1], "GET", url,
                                                    EmptyDict, w.now,
                                                    IF script.k > 0 THEN "429"
                                                    ELSE script.final))]
         IN IF script.k = 0 /\ script.final = "ok"
            THEN Done([w1 EXCEPT !.lru = Put(@, url, ContentOf(url))], ContentOf(url))
            ELSE Fail(w1, "HTTPError")

\* utils.get_content_length(url): the Content-Length of a HEAD request, cached
get_content_length(w, url) ==
    IF url \in DOMAIN w.lens THEN Done(w, w.lens[url])
    ELSE LET script == Script(w)
             w1 == [w EXCEPT !.slot = @ + 1,
                             !.net = Append(@, Sent([w EXCEPT !.slot = @ + 1], "HEAD", url,
                                                    EmptyDict, w.now,
                                                    IF script.k > 0 THEN "429"
                                                    ELSE script.final))]
         IN IF script.k = 0 /\ script.final = "ok"
            THEN Done([w1 EXCEPT !.lens = Put(@, url, Len(ContentOf(url)))],
                      Len(ContentOf(url)))
            ELSE Fail(w1, "HTTPError")

\* stat: the file types and the owner's write bit.  The modes below are sums
\* of these and permission bits that share no bit with them.
S_IFDIR == 16384
S_IFREG == 32768
S_IFLNK == 40960
S_IWUSR == 128

(***************************************************************************)
(* Slack: names and the FUSE operations                                    *)
(***************************************************************************)
\* s.split(sep, maxsplit=1)[-1]: what follows the first sep, or all of s
after_first(s, sep) ==
    IF \A i \in 1..Len(s) : s[i] # sep THEN s
    ELSE LET i == CHOOSE k \in 1..Len(s) : s[k] = sep /\ \A j \in 1..(k-1) : s[j] # sep
         IN SubSeq(s, i + 1, Len(s))

\* s.split(sep)[0]: what precedes the first sep, or all of s
before_first(s, sep) ==
    IF \A i \in 1..Len(s) : s[i] # sep THEN s
    ELSE LET i == CHOOSE k \in 1..Len(s) : s[k] = sep /\ \A j \in 1..(k-1) : s[j] # sep
         IN SubSeq(s, 1, i - 1)

\* _path_to_name
slack_path_to_name(path) == before_first(after_first(path, Slash), 46)

\* _emoji_to_filename(e, name=...)
slack_emoji_to_filename(e, name) ==
    (IF name = <<>> THEN e.name ELSE name) \o <<46>> \o e.ext

slack_emoji_url(e) ==
    WithBase("https://emoji.slack-edge.com/", Route("cdn", <<>>, e.name \o <<46>> \o e.ext))

slack_readdir(w, path) ==
    Then(slack_get_all_emoji(w),
         LAMBDA r : Done(r.w, {Dot, DotDot}
                              \cup {slack_emoji_to_filename(r.value[n], <<>>) :
                                       n \in DOMAIN r.value}))

slack_read(w, path, size, offset) ==
    IF path \in DOMAIN w.bufs THEN Done(w, bytesio_read(w.bufs[path], offset, size))
    ELSE Then(slack_get_all_emoji(w),
              LAMBDA r :
                  IF slack_path_to_name(path) \notin DOMAIN r.value THEN Fail(r.w, "ENOENT")
                  ELSE Then(get_emoji_bytes(r.w,
                                slack_emoji_url(r.value[slack_path_to_name(path)])),
                            LAMBDA b : Done(b.w, Slice(b.value, offset, offset + size))))

slack_unlink(w, path) ==
    Then(slack_get_all_emoji(w),
         LAMBDA r :
             IF slack_path_to_name(path) \notin DOMAIN r.value THEN Fail(r.w, "ENOENT")
             ELSE slack_delete_emoji(r.w, slack_path_to_name(path)))

\* a create that opens a buffer only where there is none
slack_create_keeping(w, path) ==
    Done(IF path \in DOMAIN w.bufs THEN w ELSE [w EXCEPT !.bufs = Put(@, path, <<>>)], 0)
slack_create(w, path) == Done([w EXCEPT !.bufs = Put(@, path, <<>>)], 0)

slack_write(w, path, data, offset) ==
    IF path \notin DOMAIN w.bufs THEN Fail(w, "KeyError")
    ELSE Done([w EXCEPT !.bufs[path] = bytesio_write(@, offset, data)], Len(data))

slack_truncate(w, path, length) ==
    IF path \notin DOMAIN w.bufs THEN Fail(w, "KeyError")
    ELSE Done([w EXCEPT !.bufs[path] = bytesio_truncate(@, length)], <<>>)

\* release: the upload in a try whose finally closes and forgets the buffer
slack_release_unsent(w, path) ==
    Done([w EXCEPT !.bufs = [x \in DOMAIN @ \ {path} |-> @[x]]], <<>>)
slack_release(w, path) ==
    IF path \in DOMAIN w.bufs
    THEN Let(slack_upload_emoji(w, slack_path_to_name(path), w.bufs[path]),
             LAMBDA r : [r EXCEPT !.w = [r.w EXCEPT !.bufs = Drop(@, path)]])
    ELSE Done(w, <<>>)

slack_symlink(w, target_path, source_path) ==
    Then(slack_get_all_emoji(w),
         LAMBDA r :
             IF slack_path_to_name(source_path) \notin DOMAIN r.value
             THEN Fail(r.w, "ENOENT")
             ELSE slack_alias_emoji(r.w, slack_path_to_name(source_path),
                                    slack_path_to_name(target_path)))

\* getattr: the listing is fetched first; max() and min() of the creation
\* times of an empty listing raise ValueError
slack_getattr(w, path) ==
    Then(slack_get_all_emoji(w),
         LAMBDA r :
             IF path = <<Slash>>
             THEN IF DOMAIN r.value = {} THEN Fail(r.w, "ValueError")
                  ELSE Done(r.w, [st_mode |-> S_IFDIR + 365 + S_IWUSR, st_nlink |-> 2])
             ELSE IF path \in DOMAIN r.w.bufs
             THEN Done(r.w, [st_mode |-> S_IFREG + 384, st_nlink |-> 1,
                             st_size |-> Len(r.w.bufs[path])])
             ELSE IF slack_path_to_name(path) \notin DOMAIN r.value THEN Fail(r.w, "ENOENT")
             ELSE Then(get_content_length(r.w,
                           slack_emoji_url(r.value[slack_path_to_name(path)])),
                       LAMBDA l :
                           Done(l.w, [st_mode |-> (IF r.value[slack_path_to_name(path)].is_alias
                                                   THEN S_IFLNK ELSE S_IFREG) + 292,
                                      st_nlink |-> 1, st_size |-> l.value])))

slack_readlink_own_name(w, path) ==
    Then(slack_get_all_emoji(w),
         LAMBDA r :
             IF slack_path_to_name(path) \notin DOMAIN r.value THEN Fail(r.w, "ENOENT")
             ELSE Done(r.w, slack_emoji_to_filename(r.value[slack_path_to_name(path)], <<>>)))
slack_readlink(w, path) ==
    Then(slack_get_all_emoji(w),
         LAMBDA r :
             IF slack_path_to_name(path) \notin DOMAIN r.value THEN Fail(r.w, "ENOENT")
             ELSE IF ~ r.value[slack_path_to_name(path)].is_alias THEN Fail(r.w, "EINVAL")
             ELSE Done(r.w, slack_emoji_to_filename(
                                r.value[slack_path_to_name(path)],
                                r.value[slack_path_to_name(path)].alias_for)))

\* Slack defines no listxattr and no getxattr: fuse.Operations lists nothing
\* and raises ENOTSUP
slack_listxattr(w, path) == Done(w, {})
slack_getxattr(w, path, attrname) == Fail(w, "ENOTSUP")

(***************************************************************************)
(* Discord._request and the cached listings                                *)
(***************************************************************************)
discord_url(urlfrag) == WithBase("https://discord.com/api/v6/", urlfrag)

\* _request(http_method, urlfrag, **kwargs) answered by script.  The retry hands
\* the complete URL back in as the fragment.  The backend answers a URL it
\* does not know with 404.
RECURSIVE discord_request_rec(_, _, _, _, _)
discord_request_rec(w, method, urlfrag, args, script) ==
    LET url == discord_url(urlfrag)
        t == Max2(w.now, IF url \in DOMAIN w.ra THEN w.ra[url] ELSE 0)
        status == IF ~ WellFormed(url) THEN "err"
                  ELSE IF script.k > 0 THEN "429" ELSE script.final
        w1 == [w EXCEPT !.now = t,
                        !.net = Append(@, Sent(w, method, url, args, t, status))]
    IN CASE status = "429" ->
              discord_request_rec([w1 EXCEPT !.ra = Put(@, url, t + DefaultRetry)],
                                  method, url, args, [script EXCEPT !.k = @ - 1])
         [] status = "429h" -> Fail(w1, "TypeError")
         [] status = "err" -> Fail(w1, "HTTPError")
         [] OTHER -> Done(w1, "resp")

discord_request(w, method, urlfrag, args) ==
    discord_request_rec([w EXCEPT !.slot = @ + 1], method, urlfrag, args, Script(w))

\* the guilds the user is a member of: id -> guild
Guilds ==
    [id \in {<<49>>, <<50>>} |->
        IF id = <<49>> THEN [id |-> id, name |-> <<103>>, permissions |-> 1073741824]
        ELSE [id |-> id, name |-> <<104>>, permissions |-> 0]]

\* TTLCache.__setitem__: expired entries are dropped, the new one is stored
cache_set(cache, k, value, t) ==
    Put(Unexpired(cache, t), k, Stored(value, t))

\* _get_guilds
discord_get_guilds(w) ==
    IF Live(w.members, "()", w.now) THEN Done(w, w.members["()"].value)
    ELSE Then(discord_request(w, "GET", Route("users/@me/guilds", <<>>, <<>>), EmptyDict),
              LAMBDA r : Done([r.w EXCEPT !.members = cache_set(@, "()", Guilds, r.w.now)],
                              Guilds))

\* _get_emojis(id)
discord_get_emojis(w, id) ==
    IF Live(w.emojis, id, w.now) THEN Done(w, w.emojis[id].value)
    ELSE Then(discord_request(w, "GET", Route("guilds/{id}/emojis", id, <<>>), EmptyDict),
              LAMBDA r : Done([r.w EXCEPT !.emojis =
                                   cache_set(@, id, r.w.remote[id], r.w.now)],
                              r.w.remote[id]))

\* _invalidate_guild(id)
discord_invalidate_guild(w, id) ==
    IF Live(w.emojis, id, w.now) THEN [w EXCEPT !.emojis = Drop(@, id)] ELSE w

DiscordEmoji(name, animated) ==
    [name |-> name, id |-> <<105>> \o name, animated |-> animated,
     user |-> [username |-> <<117>>, discriminator |-> <<49>>]]
\* _user_string
discord_user_string(u) == u.username \o <<35>> \o u.discriminator

\* _emoji_url, _emoji_filename
discord_extension(e) == IF e.animated THEN <<103, 105, 102>> ELSE <<112, 110, 103>>
discord_emoji_url(e) ==
    WithBase("https://cdn.discordapp.com/emojis/",
             Route("cdn", <<>>, e.id \o <<46>> \o discord_extension(e)))
discord_emoji_filename(e) == e.name \o <<46>> \o discord_extension(e)

\* str.replace('/', '_') in _guild_to_path
discord_guild_to_path(name) == [i \in 1..Len(name) |-> IF name[i] = Slash THEN 95 ELSE name[i]]

\* s.split(sep, maxsplit=n)
RECURSIVE split_max(_, _, _)
split_max(s, sep, n) ==
    IF n = 0 \/ \A i \in 1..Len(s) : s[i] # sep THEN <<s>>
    ELSE <<before_first(s, sep)>> \o split_max(after_first(s, sep), sep, n - 1)

\* s.rsplit(sep, maxsplit=1)
rsplit1(s, sep) ==
    IF \A i \in 1..Len(s) : s[i] # sep THEN <<s>>
    ELSE LET i == CHOOSE k \in 1..Len(s) : s[k] = sep /\ \A j \in (k+1)..Len(s) : s[j] # sep
         IN <<SubSeq(s, 1, i - 1), SubSeq(s, i + 1, Len(s))>>

\* str.lower
lower(s) == [i \in 1..Len(s) |-> IF s[i] >= 65 /\ s[i] <= 90 THEN s[i] + 32 ELSE s[i]]

None == [none |-> TRUE]

\* _path_to_guild: the guild, None, or the error of the listing
discord_path_to_guild(w, path) ==
    Then(discord_get_guilds(w),
         LAMBDA r :
             LET gh == split_max(path, Slash, 2)[2]
                 candidates == {id \in DOMAIN r.value :
                                   gh = discord_guild_to_path(r.value[id].name)}
             IN IF gh \in DOMAIN r.value THEN Done(r.w, r.value[gh])
                ELSE IF candidates # {}
                THEN Done(r.w, r.value[CHOOSE id \in candidates :
                                           \A o \in candidates : ~ StrLT(o, id)])
                ELSE Done(r.w, None))

\* _path_to_emojiname
discord_path_to_emojiname(path) ==
    LET sp == split_max(path, Slash, 2)
    IN IF Len(sp) < 3 \/ sp[3] = <<>> THEN [none |-> TRUE, name |-> <<>>]
       ELSE [none |-> FALSE, name |-> before_first(sp[3], 46)]

\* _path_to_guildmoji: value <<g, e>>; `if eh:` is false for None and for ''
discord_path_to_guildmoji(w, path) ==
    Then(discord_path_to_guild(w, path),
         LAMBDA rg :
             LET eh == discord_path_to_emojiname(path)
             IN IF rg.value = None THEN Done(rg.w, <<None, None>>)
                ELSE IF eh.none \/ eh.name = <<>> THEN Done(rg.w, <<rg.value, None>>)
                ELSE Then(discord_get_emojis(rg.w, rg.value.id),
                          LAMBDA re :
                              IF eh.name \in DOMAIN re.value
                              THEN Done(re.w, <<rg.value, re.value[eh.name]>>)
                              ELSE Fail(re.w, "ENOENT")))

\* _guild_is_writable: permissions & MANAGE_EMOJIS (0x40000000)
discord_guild_is_writable(g) == (g.permissions \div 1073741824) % 2 = 1

\* _path_to_extension: the extension, or ValueError
discord_path_to_extension(path) ==
    LET sp == rsplit1(path, 46)
    IN IF Len(sp) < 2 THEN [err |-> "ValueError", value |-> <<>>]
       ELSE IF lower(sp[2]) \notin {<<106, 112, 103>>, <<106, 112, 101, 103>>,
                                    <<103, 105, 102>>, <<112, 110, 103>>}
            THEN [err |-> "ValueError", value |-> <<>>]
       ELSE [err |-> "none", value |-> sp[2]]

(***************************************************************************)
(* Discord: the FUSE operations                                            *)
(***************************************************************************)
discord_readdir(w, path) ==
    Then(IF path = <<Slash>> THEN discord_get_guilds(w) ELSE Done(w, EmptyDict),
         LAMBDA rg :
             LET top == {discord_guild_to_path(rg.value[id].name) : id \in DOMAIN rg.value}
             IN Then(discord_path_to_guildmoji(rg.w, path),
                     LAMBDA r :
                         IF r.value[1] # None /\ r.value[2] = None
                         THEN Then(discord_get_emojis(r.w, r.value[1].id),
                                   LAMBDA re :
                                       Done(re.w, {Dot, DotDot} \cup top
                                                  \cup {discord_emoji_filename(re.value[n]) :
                                                           n \in DOMAIN re.value}))
                         ELSE Done(r.w, {Dot, DotDot} \cup top)))

discord_read(w, path, size, offset) ==
    IF path \in DOMAIN w.bufs THEN Done(w, bytesio_read(w.bufs[path], offset, size))
    ELSE Then(discord_path_to_guildmoji(w, path),
              LAMBDA r :
                  IF r.value[1] # None /\ r.value[2] # None
                  THEN Then(get_emoji_bytes(r.w, discord_emoji_url(r.value[2])),
                            LAMBDA b : Done(b.w, Slice(b.value, offset, offset + size)))
                  ELSE Fail(r.w, "ENOENT"))

\* unlink: the DELETE, and after it the invalidation
discord_unlink(w, path) ==
    Then(discord_path_to_guildmoji(w, path),
         LAMBDA r :
             IF r.value[1] # None /\ r.value[2] # None
             THEN Then(discord_request(r.w, "DELETE",
                                       Route("guilds/{id}/emojis/{id}",
                                             r.value[1].id, r.value[2].id), EmptyDict),
                       LAMBDA d :
                           Done(discord_invalidate_guild(
                                    [d.w EXCEPT !.remote[r.value[1].id] =
                                                    Drop(@, r.value[2].name)],
                                    r.value[1].id), <<>>))
             ELSE IF r.value[1] # None THEN Fail(r.w, "EPERM")
             ELSE Fail(r.w, "ENOENT"))

discord_create(w, path) ==
    Then(discord_path_to_guild(w, path),
         LAMBDA r :
             IF r.value = None THEN Fail(r.w, "ENOENT")
             ELSE IF ~ discord_guild_is_writable(r.value) THEN Fail(r.w, "EPERM")
             ELSE IF discord_path_to_extension(path).err # "none" THEN Fail(r.w, "EINVAL")
             ELSE Done([r.w EXCEPT !.bufs = Put(@, path, <<>>)], 0))

discord_write(w, path, data, offset) ==
    IF path \notin DOMAIN w.bufs THEN Fail(w, "KeyError")
    ELSE Done([w EXCEPT !.bufs[path] = bytesio_write(@, offset, data)], Len(data))

\* Discord defines no truncate and no symlink: fuse.Operations raises EROFS
discord_truncate(w, path, length) == Fail(w, "EROFS")
\* nor readlink: fuse.Operations raises ENOENT
discord_readlink(w, path) == Fail(w, "ENOENT")
discord_symlink(w, target_path, source_path) == Fail(w, "EROFS")

discord_getattr(w, path) ==
    IF path = <<Slash>> THEN Done(w, [st_mode |-> S_IFDIR + 365 + S_IWUSR, st_nlink |-> 2])
    ELSE IF path \in DOMAIN w.bufs
    THEN Done(w, [st_mode |-> S_IFREG + 384, st_nlink |-> 1, st_size |-> Len(w.bufs[path])])
    ELSE Then(discord_path_to_guildmoji(w, path),
              LAMBDA r :
                  IF r.value[1] = None THEN Fail(r.w, "ENOENT")
                  ELSE IF r.value[2] = None
                  THEN Done(r.w, [st_mode |-> S_IFDIR + 365
                                              + (IF discord_guild_is_writable(r.value[1])
                                                 THEN S_IWUSR ELSE 0),
                                  st_nlink |-> 2])
                  ELSE Then(get_content_length(r.w, discord_emoji_url(r.value[2])),
                            LAMBDA l : Done(l.w, [st_mode |-> S_IFREG + 292, st_nlink |-> 1,
                                                  st_size |-> l.value])))

\* constants.URL_XATTR_NAME, constants.CREATEDBY_XATTR_NAME
URL_XATTR_NAME == "user.url"
CREATEDBY_XATTR_NAME == "user.created_by"

\* listxattr: (g, e) is tested with `not g and e`, which no (g, e) that
\* _path_to_guildmoji returns satisfies
discord_listxattr(w, path) ==
    IF path = <<Slash>> \/ path \in DOMAIN w.bufs THEN Done(w, {})
    ELSE Then(discord_path_to_guildmoji(w, path),
              LAMBDA r :
                  IF r.value[1] = None /\ r.value[2] # None THEN Fail(r.w, "ENOENT")
                  ELSE Done(r.w, {URL_XATTR_NAME, CREATEDBY_XATTR_NAME}))

\* getxattr: _emoji_url(e) and e['user'] subscript e, which is None for a
\* path without an emoji
discord_getxattr(w, path, attrname) ==
    IF path = <<Slash>> \/ path \in DOMAIN w.bufs THEN Fail(w, "ENODATA")
    ELSE Then(discord_path_to_guildmoji(w, path),
              LAMBDA r :
                  IF r.value[1] = None /\ r.value[2] # None THEN Fail(r.w, "ENOENT")
                  ELSE IF attrname \in {URL_XATTR_NAME, CREATEDBY_XATTR_NAME}
                  THEN IF r.value[2] = None THEN Fail(r.w, "TypeError")
                       ELSE Done(r.w, IF attrname = URL_XATTR_NAME
                                      THEN discord_emoji_url(r.value[2])
                                      ELSE discord_user_string(r.value[2].user))
                  ELSE Fail(r.w, "ENODATA"))

\* base64.b64encode(b).decode('ascii'): three bytes give four characters of
\* the alphabet, a shorter last group is padded with '='
b64char(v) ==
    IF v < 26 THEN 65 + v
    ELSE IF v < 52 THEN 97 + (v - 26)
    ELSE IF v < 62 THEN 48 + (v - 52)
    ELSE IF v = 62 THEN 43 ELSE 47

RECURSIVE b64encode(_)
b64encode(b) ==
    IF Len(b) = 0 THEN <<>>
    ELSE LET n == Min2(3, Len(b))
             v == b[1] * 65536 + (IF n >= 2 THEN b[2] ELSE 0) * 256
                  + (IF n >= 3 THEN b[3] ELSE 0)
         IN <<b64char(v \div 262144), b64char((v \div 4096) % 64),
              IF n >= 2 THEN b64char((v \div 64) % 64) ELSE 61,
              IF n >= 3 THEN b64char(v % 64) ELSE 61>>
            \o b64encode(SubSeq(b, 4, Len(b)))

\* release: guild, name and extension are found before the try; the request
\* is in the try; its finally forgets the buffer and invalidates the guild
discord_release_resolving(w, path) ==
    Let(discord_path_to_guild(w, path),
        LAMBDA rg : [rg EXCEPT !.w = [rg.w EXCEPT !.bufs = Drop(@, path)]])
discord_release(w, path) ==
    IF path \in DOMAIN w.bufs
    THEN Then(discord_path_to_guild(w, path),
              LAMBDA rg :
                  LET eh == discord_path_to_emojiname(path)
                      ext == discord_path_to_extension(path)
                      image_mime == IF ext.value = <<106, 112, 103>>
                                    THEN <<106, 112, 101, 103>> ELSE ext.value
                      payload == [name |-> eh.name,
                                  image |-> [mime |-> image_mime,
                                             data |-> b64encode(w.bufs[path])]]
                  IN IF ext.err # "none" THEN Fail(rg.w, "ValueError")
                     ELSE IF rg.value = None
                     THEN Fail([rg.w EXCEPT !.bufs = Drop(@, path)], "TypeError")
                     ELSE Let(discord_request(rg.w, "POST",
                                              Route("guilds/{id}/emojis", rg.value.id, <<>>),
                                              [json |-> payload]),
                              LAMBDA r :
                                  [r EXCEPT !.w = discord_invalidate_guild(
                                      [(IF r.err = "none"
                                        THEN [r.w EXCEPT !.remote[rg.value.id] =
                                                 Put(@, eh.name,
                                                     DiscordEmoji(eh.name,
                                                                  ext.value = <<103, 105, 102>>))]
                                        ELSE r.w) EXCEPT !.bufs = Drop(@, path)],
                                      rg.value.id)]))
    ELSE Done(w, <<>>)

(***************************************************************************)
(* The adapter's operations as actions.                                    *)
(***************************************************************************)
Idle == [op |-> "none"]

\* the adapter's state when the operation started
Snapshot ==
    [now |-> now, bufs |-> write_buffers, meta |-> cached_metadata,
     members |-> membership_cache, emojis |-> emojis_cache, ra |-> retry_after,
     lru |-> bytes_cache, lens |-> length_cache, remote |-> remote]

\* The operation op runs to its end r, once the previous one has returned.
Run(op, path, args, r) ==
    /\ ret = Idle
    /\ r.w.now <= (IF limited THEN MaxRetries * DefaultRetry ELSE MaxClock)
    /\ now' = r.w.now
    /\ write_buffers' = r.w.bufs
    /\ cached_metadata' = r.w.meta
    /\ membership_cache' = r.w.members
    /\ emojis_cache' = r.w.emojis
    /\ retry_after' = r.w.ra
    /\ bytes_cache' = r.w.lru
    /\ length_cache' = r.w.lens
    /\ remote' = r.w.remote
    /\ net' = r.w.net
    /\ ret' = [op |-> op, path |-> path, args |-> args,
               outcome |-> IF r.err = "none" THEN "ok" ELSE r.err,
               value |-> r.value, pre |-> Snapshot]
    /\ UNCHANGED <<backend, limited, threads, muxvars>>

\* The operation returns to the FUSE layer.
FsReturn ==
    /\ ret # Idle
    /\ ret' = Idle
    /\ net' = <<>>
    /\ UNCHANGED <<backend, limited, now, write_buffers, cached_metadata, membership_cache,
                   emojis_cache, retry_after, bytes_cache, length_cache, remote, threads,
                   muxvars>>

\* Time passes between operations.
Tick ==
    /\ ret = Idle
    /\ now + TTL <= MaxClock
    /\ now' = now + TTL
    /\ cached_metadata' = Unexpired(cached_metadata, now')
    /\ membership_cache' = Unexpired(membership_cache, now')
    /\ emojis_cache' = Unexpired(emojis_cache, now')
    /\ UNCHANGED <<backend, limited, write_buffers, retry_after, bytes_cache, length_cache,
                   remote, net, ret, threads, muxvars>>

\* the paths the adapter is asked about, after the Muxer stripped its prefix
Root == <<Slash>>
e_png == <<101, 46, 112, 110, 103>>
f_gif == <<102, 46, 103, 105, 102>>

\* the directories that are listed
DirPaths == IF backend = "slack" THEN {Root} ELSE {Root, <<Slash, 103>>}
\* the files that are read, removed and linked: in the team, or in guild g
OwnFiles ==
    IF backend = "slack" THEN {<<Slash>> \o e_png, <<Slash>> \o f_gif}
    ELSE {<<Slash, 103, Slash>> \o e_png, <<Slash, 103, Slash>> \o f_gif}
\* the file that is written
NewFile == IF backend = "slack" THEN <<Slash>> \o f_gif ELSE <<Slash, 103, Slash>> \o f_gif
f_txt == <<102, 46, 116, 120, 116>>
\* names that are given to create although no emoji can have them: a file
\* that is no image, and a file in a guild x the user is not a member of
OddFiles ==
    IF backend = "slack" THEN {<<Slash>> \o f_txt}
    ELSE {<<Slash, 103, Slash>> \o f_txt, <<Slash, 120, Slash>> \o f_gif}
\* the files that are created: the written one, one in guild h, and the odd ones
NewFiles ==
    IF backend = "slack" THEN {NewFile} \cup OddFiles
    ELSE {NewFile, <<Slash, 104, Slash>> \o e_png} \cup OddFiles
\* the files that are released: those, and one that was only read
ClosedFiles == {NewFile, CHOOSE p \in OwnFiles : p # NewFile} \cup OddFiles

\* what one write call carries
Contents == UNION {[1..n -> Bytes] : n \in 1..MaxBuf}

FsReaddir ==
    \E path \in DirPaths, plan \in Plans :
        Run("readdir", path, <<>>,
            IF backend = "slack" THEN slack_readdir(World(plan), path)
            ELSE discord_readdir(World(plan), path))

FsRead ==
    \E path \in OwnFiles, size \in 1..MaxBuf, offset \in 0..MaxBuf, plan \in Plans :
        Run("read", path, [size |-> size, offset |-> offset],
            IF backend = "slack" THEN slack_read(World(plan), path, size, offset)
            ELSE discord_read(World(plan), path, size, offset))

FsUnlink ==
    \E path \in OwnFiles \cup DirPaths, plan \in Plans :
        Run("unlink", path, <<>>,
            IF backend = "slack" THEN slack_unlink(World(plan), path)
            ELSE discord_unlink(World(plan), path))

FsCreate ==
    \E path \in NewFiles, plan \in Plans :
        Run("create", path, <<>>,
            IF backend = "slack" THEN slack_create(World(plan), path)
            ELSE discord_create(World(plan), path))

FsWrite ==
    \E path \in {NewFile}, data \in Contents \cup {<<>>}, offset \in 0..MaxBuf :
        /\ offset + Len(data) <= MaxBuf
        /\ Run("write", path, [data |-> data, offset |-> offset],
               IF backend = "slack" THEN slack_write(World(AllOk), path, data, offset)
               ELSE discord_write(World(AllOk), path, data, offset))

FsTruncate ==
    \E path \in {NewFile}, length \in 0..MaxBuf :
        Run("truncate", path, [length |-> length],
            IF backend = "slack" THEN slack_truncate(World(AllOk), path, length)
            ELSE discord_truncate(World(AllOk), path, length))

FsRelease ==
    \E path \in ClosedFiles, plan \in Plans :
        Run("release", path, <<>>,
            IF backend = "slack" THEN slack_release(World(plan), path)
            ELSE discord_release(World(plan), path))

\* the paths whose attributes are asked for
StatPaths ==
    DirPaths \cup {NewFile} \cup (IF backend = "slack" THEN {} ELSE {<<Slash, 104>>})
\* the names of the extended attributes that are asked for
AttrNames == {URL_XATTR_NAME, CREATEDBY_XATTR_NAME, "user.other"}

FsGetattr ==
    \E path \in StatPaths, plan \in Plans :
        Run("getattr", path, <<>>,
            IF backend = "slack" THEN slack_getattr(World(plan), path)
            ELSE discord_getattr(World(plan), path))

FsReadlink ==
    \E path \in OwnFiles, plan \in Plans :
        Run("readlink", path, <<>>,
            IF backend = "slack" THEN slack_readlink(World(plan), path)
            ELSE discord_readlink(World(plan), path))

FsListxattr ==
    \E path \in StatPaths, plan \in Plans :
        Run("listxattr", path, <<>>,
            IF backend = "slack" THEN slack_listxattr(World(plan), path)
            ELSE discord_listxattr(World(plan), path))

FsGetxattr ==
    \E path \in StatPaths, attrname \in AttrNames, plan \in Plans :
        Run("getxattr", path, [name |-> attrname],
            IF backend = "slack" THEN slack_getxattr(World(plan), path, attrname)
            ELSE discord_getxattr(World(plan), path, attrname))

FsSymlink ==
    \E target \in OwnFiles, source \in OwnFiles, plan \in Plans :
        /\ target # source
        /\ Run("symlink", target, [source |-> source],
               IF backend = "slack" THEN slack_symlink(World(plan), target, source)
               ELSE discord_symlink(World(plan), target, source))

InitialRemote(b) ==
    IF b = "slack"
    THEN Put(EmptyDict, "team", Put(EmptyDict, <<101>>, SlackEmoji(<<101>>, <<>>)))
    ELSE [id \in DOMAIN Guilds |-> Put(EmptyDict, <<101>>, DiscordEmoji(<<101>>, FALSE))]

\* the adapter after construction, in front of the backend's initial content
Fresh(b) ==
    [now |-> 0, ra |-> EmptyDict, net |-> <<>>, slot |-> 0, plan |-> AllOk,
     bufs |-> EmptyDict, meta |-> EmptyDict, members |-> EmptyDict, emojis |-> EmptyDict,
     lru |-> EmptyDict, lens |-> EmptyDict, remote |-> InitialRemote(b)]

\* the adapter and the backend are as in w, and no operation is running
Loaded(w, b, l) ==
    /\ backend = b
    /\ limited = l
    /\ now = w.now
    /\ write_buffers = w.bufs
    /\ cached_metadata = w.meta
    /\ membership_cache = w.members
    /\ emojis_cache = w.emojis
    /\ retry_after = w.ra
    /\ bytes_cache = w.lru
    /\ length_cache = w.lens
    /\ remote = w.remote
    /\ net = <<>>
    /\ ret = Idle
    /\ map_arg = {}
    /\ muxer = [status |-> "new", mountpoints |-> <<>>, intermediates |-> {}]
    /\ call = NoCall

\* a backend that answers or fails, and never rate-limits; one operation at a time
Init == threads = <<>> /\ \E b \in {"slack", "discord"} : Loaded(Fresh(b), b, FALSE)

\* the adapter once path was created and data written to it
Opened(b, path, data) ==
    IF b = "slack"
    THEN slack_write(slack_create(Fresh(b), path).w, path, data, 0).w
    ELSE discord_write(discord_create(Fresh(b), path).w, path, data, 0).w

\* a backend that rate-limits, met with a file open for writing
InitRetry ==
    /\ threads = <<>>
    /\ \E b \in {"slack", "discord"}, data \in Contents :
           Loaded(Opened(b, IF b = "slack" THEN <<Slash>> \o f_gif
                            ELSE <<Slash, 103, Slash>> \o f_gif, data), b, TRUE)

Next ==
    \/ FsReaddir
    \/ FsRead
    \/ FsUnlink
    \/ FsCreate
    \/ FsWrite
    \/ FsTruncate
    \/ FsRelease
    \/ FsSymlink
    \/ FsReturn
    \/ Tick

Spec == Init /\ [][Next]_allvars

\* the operations that report on a path (attributes, link target, extended
\* attributes) among those that change what there is to report; the content
\* of the entities is not read
NextAttr ==
    \/ FsGetattr
    \/ FsReadlink
    \/ FsListxattr
    \/ FsGetxattr
    \/ FsUnlink
    \/ FsCreate
    \/ FsWrite
    \/ FsTruncate
    \/ FsRelease
    \/ FsSymlink
    \/ FsReturn
    \/ Tick

SpecAttr == Init /\ [][NextAttr]_allvars

\* the operations that call the backend: the retries move the clock
NextRetry ==
    \/ FsReaddir
    \/ FsRead
    \/ FsUnlink
    \/ FsCreate
    \/ FsRelease
    \/ FsSymlink
    \/ FsReturn

SpecRetry == InitRetry /\ [][NextRetry]_allvars

(***************************************************************************)
(* Operations on several threads.  fuse.FUSE is started without nothreads, *)
(* so libfuse calls the operations on worker threads; the adapters hold no *)
(* lock.  A thread gives way to another wherever it waits for the network: *)
(* between sending a request and receiving its answer.  cachetools' cached *)
(* and cachedmethod, given no lock, look the key up, call the method on a  *)
(* miss, and store what it returned.                                       *)
(***************************************************************************)
MaxThreads == 2    \* FUSE worker threads inside the adapter at once
Threads == 1..MaxThreads

\* the cached listings: Slack's emoji ("meta"), Discord's guilds ("members")
\* and the emoji of guild 1 ("emojis")
WatchedGuild == <<49>>
ThreadKeys == IF backend = "slack" THEN {"meta"} ELSE {"members", "emojis"}
\* the listings that mutations invalidate
MutableKeys == ThreadKeys \ {"members"}

cached_live(key) ==
    CASE key = "meta" -> Live(cached_metadata, "self", now)
      [] key = "members" -> Live(membership_cache, "()", now)
      [] key = "emojis" -> Live(emojis_cache, WatchedGuild, now)
cached_value(key) ==
    CASE key = "meta" -> cached_metadata["self"].value
      [] key = "members" -> membership_cache["()"].value
      [] key = "emojis" -> emojis_cache[WatchedGuild].value
\* what the backend lists for the key
listed(key) ==
    CASE key = "meta" -> remote["team"]
      [] key = "members" -> Guilds
      [] key = "emojis" -> remote[WatchedGuild]

Parked == [pc |-> "idle", key |-> "none", value |-> None]

\* a thread calls _get_all_emoji, _get_guilds or _get_emojis: served from the
\* cache, or on a miss the list request is sent
ThreadLookup(t) ==
    \E key \in ThreadKeys :
        /\ threads[t].pc = "idle"
        /\ threads' = [threads EXCEPT ![t] =
                           IF cached_live(key)
                           THEN [pc |-> "idle", key |-> key, value |-> cached_value(key)]
                           ELSE [pc |-> "fetching", key |-> key, value |-> None]]
        /\ UNCHANGED <<backend, limited, now, write_buffers, cached_metadata,
                       membership_cache, emojis_cache, retry_after, bytes_cache,
                       length_cache, remote, net, ret, muxvars>>

\* the backend answers the list request of a thread, with its listing or a failure
ThreadAnswer(t) ==
    \E status \in {"ok", "err"} :
        /\ threads[t].pc = "fetching"
        /\ threads' = [threads EXCEPT ![t] =
                           IF status = "ok"
                           THEN [@ EXCEPT !.pc = "answered", !.value = listed(threads[t].key)]
                           ELSE [@ EXCEPT !.pc = "failed"]]
        /\ UNCHANGED <<backend, limited, now, write_buffers, cached_metadata,
                       membership_cache, emojis_cache, retry_after, bytes_cache,
                       length_cache, remote, net, ret, muxvars>>

\* the thread receives the answer: the listing is stored and returned, a
\* failure is raised
ThreadStore(t) ==
    /\ threads[t].pc \in {"answered", "failed"}
    /\ threads' = [threads EXCEPT ![t] = [@ EXCEPT !.pc = "idle"]]
    /\ cached_metadata' =
           IF threads[t].pc = "answered" /\ threads[t].key = "meta"
           THEN Put(EmptyDict, "self", Stored(threads[t].value, now))
           ELSE cached_metadata
    /\ membership_cache' =
           IF threads[t].pc = "answered" /\ threads[t].key = "members"
           THEN cache_set(membership_cache, "()", threads[t].value, now)
           ELSE membership_cache
    /\ emojis_cache' =
           IF threads[t].pc = "answered" /\ threads[t].key = "emojis"
           THEN cache_set(emojis_cache, WatchedGuild, threads[t].value, now)
           ELSE emojis_cache
    /\ UNCHANGED <<backend, limited, now, write_buffers, retry_after, bytes_cache,
                   length_cache, remote, net, ret, muxvars>>

\* a thread sends the request of an unlink (of emoji e) or of a release (of
\* emoji f) in the collection of the key
ThreadMutate(t) ==
    \E key \in MutableKeys, name \in {<<101>>, <<102>>} :
        /\ threads[t].pc = "idle"
        /\ name = <<101>> => name \in DOMAIN listed(key)
        /\ threads' = [threads EXCEPT ![t] = [pc |-> "mutating", key |-> key, value |-> name]]
        /\ UNCHANGED <<backend, limited, now, write_buffers, cached_metadata,
                       membership_cache, emojis_cache, retry_after, bytes_cache,
                       length_cache, remote, net, ret, muxvars>>

\* the backend carries the mutation out and answers
ThreadMutated(t) ==
    /\ threads[t].pc = "mutating"
    /\ threads' = [threads EXCEPT ![t] = [@ EXCEPT !.pc = "mutated"]]
    /\ remote' =
           LET c == IF threads[t].key = "meta" THEN "team" ELSE WatchedGuild
               name == threads[t].value
           IN [remote EXCEPT ![c] =
                  IF name = <<101>> THEN Drop(@, name)
                  ELSE Put(@, name, IF backend = "slack" THEN SlackEmoji(name, <<>>)
                                    ELSE DiscordEmoji(name, TRUE))]
    /\ UNCHANGED <<backend, limited, now, write_buffers, cached_metadata,
                   membership_cache, emojis_cache, retry_after, bytes_cache,
                   length_cache, net, ret, muxvars>>

\* the thread receives the answer and invalidates the listing:
\* _invalidate_metadata, _invalidate_guild
ThreadInvalidate(t) ==
    /\ threads[t].pc = "mutated"
    /\ threads' = [threads EXCEPT ![t] = Parked]
    /\ cached_metadata' = IF threads[t].key = "meta" THEN EmptyDict ELSE cached_metadata
    /\ emojis_cache' =
           IF threads[t].key = "emojis" /\ Live(emojis_cache, WatchedGuild, now)
           THEN Drop(emojis_cache, WatchedGuild)
           ELSE emojis_cache
    /\ UNCHANGED <<backend, limited, now, write_buffers, membership_cache, retry_after,
                   bytes_cache, length_cache, remote, net, ret, muxvars>>

\* time passes, while threads may be waiting
ThreadTick ==
    /\ now + TTL <= MaxClock
    /\ now' = now + TTL
    /\ UNCHANGED <<backend, limited, write_buffers, cached_metadata, membership_cache,
                   emojis_cache, retry_after, bytes_cache, length_cache, remote, net, ret,
                   threads, muxvars>>

InitThreads ==
    /\ threads = [t \in Threads |-> Parked]
    /\ \E b \in {"slack", "discord"} : Loaded(Fresh(b), b, FALSE)

NextThreads ==
    \/ \E t \in Threads : ThreadLookup(t)
    \/ \E t \in Threads : ThreadAnswer(t)
    \/ \E t \in Threads : ThreadStore(t)
    \/ \E t \in Threads : ThreadMutate(t)
    \/ \E t \in Threads : ThreadMutated(t)
    \/ \E t \in Threads : ThreadInvalidate(t)
    \/ ThreadTick

SpecThreads == InitThreads /\ [][NextThreads]_allvars

(***************************************************************************)
(* Properties of the Muxer.                                                *)
(***************************************************************************)
Constructed == muxer.status = "ok"
\* an operation that the Muxer defines, and so dispatches by _map_path, was called
Called ==
    call.op \in {"getattr", "readdir", "readlink", "read", "open", "unlink", "create",
                 "write", "release", "truncate", "symlink"}
\* any operation was called, also one that the Muxer inherits
CalledAny == call.op # "none"

\* some mountpoint prefix is a proper string-prefix of another one
NestedPair(S) == \E a \in S, b \in S : a # b /\ startswith(b, a)

\* C1: constructing a Muxer succeeds if and only if no mountpoint prefix of
\* the map is a proper string-prefix of another, whether or not the two are
\* adjacent in the sorted table.
C1_ConstructionIffPrefixFree ==
    muxer.status # "new" => (muxer.status = "ok" <=> ~ NestedPair(map_arg))

\* a rejected map whose nested pair is not adjacent in the sorted table
C1_Witness ==
    /\ muxer.status = "AssertionError"
    /\ \E i \in 1..Len(muxer.mountpoints), j \in 1..Len(muxer.mountpoints) :
          /\ j > i + 1
          /\ startswith(muxer.mountpoints[j], muxer.mountpoints[i])

\* C2: when some mountpoint prefix M is a string-prefix of the path, the
\* operation is delegated to M's adapter, with '/' when the path is M and
\* otherwise with the remainder R such that M + R is the path.
C2_DispatchStripsMatchedPrefix ==
    \A M \in map_arg :
        (Constructed /\ Called /\ startswith(call.path, M)) =>
            /\ call.outcome = "delegated"
            /\ call.fs = Adapter(M)
            /\ IF call.path = M THEN call.fspath = <<Slash>>
               ELSE M \o call.fspath = call.path

\* a path that extends the first of several mountpoints is delegated to that
\* mountpoint's adapter with a remainder
C2_Witness ==
    /\ Called
    /\ call.outcome = "delegated"
    /\ Len(muxer.mountpoints) >= 2
    /\ call.fs = Adapter(muxer.mountpoints[1])
    /\ call.path # muxer.mountpoints[1]
    /\ muxer.mountpoints[1] \o call.fspath = call.path

\* the path of the entry `name` of directory `dir`
JoinPath(dir, name) ==
    IF dir = <<Slash>> THEN dir \o name ELSE dir \o <<Slash>> \o name

\* the names of the immediate children of dir among the intermediate
\* directories and the mountpoint prefixes
ChildNames(dir) ==
    {n \in Strings(1, MaxLen) :
        /\ \A i \in 1..Len(n) : n[i] # Slash
        /\ JoinPath(dir, n) \in muxer.intermediates \cup map_arg}

\* C3: readdir of an intermediate directory returns '.', '..' and then the
\* names of its immediate children among intermediates and mountpoints, each
\* exactly once, and calls no adapter.
C3_IntermediateListing ==
    (Constructed /\ call.op = "readdir" /\ call.path \in muxer.intermediates) =>
        /\ call.outcome = "listing"
        /\ call.fs = <<>>
        /\ Len(call.names) >= 2
        /\ call.names[1] = Dot
        /\ call.names[2] = DotDot
        /\ LET rest == SubSeq(call.names, 3, Len(call.names))
           IN /\ Range(rest) = ChildNames(call.path)
              /\ Len(rest) = Cardinality(ChildNames(call.path))

\* the listing of the root when its children are an intermediate directory
\* and a mountpoint, and a mountpoint lies deeper
C3_Witness ==
    /\ call.op = "readdir"
    /\ call.outcome = "listing"
    /\ call.path = <<Slash>>
    /\ \E i \in muxer.intermediates, m \in map_arg :
          /\ i # <<Slash>>
          /\ SliceFrom(i, 1) \in Range(call.names)
          /\ SliceFrom(m, 1) \in Range(call.names)
    /\ \E m \in map_arg : SliceFrom(m, 1) \notin Range(call.names)

\* C4: every operation on a path that no mountpoint prefix matches and that
\* is no intermediate directory ends in ENOENT, without calling an adapter.
C4_UnmatchedIsNotFound ==
    (/\ Constructed
     /\ Called
     /\ call.path \notin muxer.intermediates
     /\ ~ \E M \in map_arg : startswith(call.path, M)) =>
        /\ call.outcome = "ENOENT"
        /\ call.fs = <<>>

(***************************************************************************)
(* Properties of the adapters.  ret is the operation that just ran, with   *)
(* the adapter's state when it started; net is the requests it sent.       *)
(***************************************************************************)
\* the operation that just ran found a buffer open for its path
HadBuffer == ret.op # "none" /\ ret.path \in DOMAIN ret.pre.bufs

\* a request that changes the backend
Mutating(m) == m.method \in {"POST", "DELETE"}

\* a request that uploads an image
IsUpload(m) ==
    /\ m.method = "POST"
    /\ IF backend = "slack"
       THEN m.url.route = "emoji.add" /\ m.args.data.mode = "data"
       ELSE m.url.route = "guilds/{id}/emojis"

\* what a base64 text stands for
b64value(c) == CHOOSE v \in 0..63 : b64char(v) = c
RECURSIVE b64decode(_)
b64decode(s) ==
    IF Len(s) < 4 THEN <<>>
    ELSE LET n == b64value(s[1]) * 262144 + b64value(s[2]) * 4096
                  + (IF s[3] = 61 THEN 0 ELSE b64value(s[3]) * 64)
                  + (IF s[4] = 61 THEN 0 ELSE b64value(s[4]))
             three == <<n \div 65536, (n \div 256) % 256, n % 256>>
         IN SubSeq(three, 1, IF s[3] = 61 THEN 1 ELSE IF s[4] = 61 THEN 2 ELSE 3)
            \o b64decode(SubSeq(s, 5, Len(s)))

\* the image the backend receives with an upload
UploadedImage(m) ==
    IF backend = "slack" THEN m.args.image ELSE b64decode(m.args.json.image.data)

Uploads == {i \in 1..Len(net) : IsUpload(net[i])}

\* the listing the release needs was at hand: Slack needs none, Discord
\* has the guilds cached or fetches them
Resolved ==
    \/ backend = "slack"
    \/ Live(ret.pre.members, "()", ret.pre.now)
    \/ Len(net) >= 1 /\ net[1].url.route = "users/@me/guilds" /\ net[1].status = "ok"

NoMutationBeforeRelease ==
    ret.op \in {"create", "write", "truncate"} => \A i \in 1..Len(net) : ~ Mutating(net[i])

\* C5 as stated: a release of an open buffer sends exactly one upload, whose
\* image is the content of the buffer, and create, write and truncate send
\* no request that changes the backend.
C5_ReleaseUploadsOnce ==
    /\ (ret.op = "release" /\ HadBuffer) =>
           /\ Cardinality(Uploads) = 1
           /\ \A i \in Uploads : UploadedImage(net[i]) = ret.pre.bufs[ret.path]
    /\ NoMutationBeforeRelease

\* C5, amended: a release of an open buffer sends exactly one upload when the
\* listing it needs to find the target is at hand, and none otherwise; the
\* image of the upload is the content of the buffer, byte for byte; create,
\* write and truncate send no request that changes the backend.
C5_ReleaseUploadsOnceWhenResolved ==
    /\ (ret.op = "release" /\ HadBuffer) =>
           /\ Cardinality(Uploads) = (IF Resolved THEN 1 ELSE 0)
           /\ \A i \in Uploads : UploadedImage(net[i]) = ret.pre.bufs[ret.path]
    /\ NoMutationBeforeRelease

C5_Witness ==
    /\ backend = "discord"
    /\ ret.op = "release"
    /\ HadBuffer
    /\ ret.pre.bufs[ret.path] = <<1, 0>>
    /\ Cardinality(Uploads) = 1

\* the bytes of b in [offset, min(offset + size, Len(b)))
Range_of(b, offset, size) ==
    [i \in 1..(Max2(Min2(offset + size, Len(b)) - offset, 0)) |-> b[offset + i]]

\* C6: a read of a path with an open buffer returns the bytes of the buffer
\* in [offset, min(offset+size, length)), sends no request, refreshes no
\* cache and leaves every buffer as it was.
C6_ReadFromBuffer ==
    (ret.op = "read" /\ HadBuffer) =>
        /\ ret.outcome = "ok"
        /\ ret.value = Range_of(ret.pre.bufs[ret.path], ret.args.offset, ret.args.size)
        /\ net = <<>>
        /\ cached_metadata = ret.pre.meta
        /\ membership_cache = ret.pre.members
        /\ emojis_cache = ret.pre.emojis
        /\ bytes_cache = ret.pre.lru
        /\ write_buffers = ret.pre.bufs

C6_Witness ==
    /\ ret.op = "read"
    /\ HadBuffer
    /\ ret.pre.bufs[ret.path] = <<0, 1>>
    /\ ret.args.offset = 1
    /\ ret.args.size = 2
    /\ ret.value = <<1>>

\* the key of the listing of the collection of path, in the cache that holds it
CollectionKey(path) ==
    IF backend = "slack" THEN "self"
    ELSE CHOOSE id \in DOMAIN Guilds :
             discord_guild_to_path(Guilds[id].name) = split_max(path, Slash, 2)[2]

\* the cache of the collections' listings
ListingCache(meta, emojis) == IF backend = "slack" THEN meta ELSE emojis

\* the cache holds no listing of the collection of the operation's path
ListingGone == ~ Live(ListingCache(cached_metadata, emojis_cache), CollectionKey(ret.path), now)

\* it held one when the operation started
ListingWasLive ==
    Live(ListingCache(ret.pre.meta, ret.pre.emojis), CollectionKey(ret.path), ret.pre.now)

\* the names the backend lists now in the directory path
ListedNow(path) ==
    IF backend = "slack"
    THEN {slack_emoji_to_filename(remote["team"][n], <<>>) : n \in DOMAIN remote["team"]}
    ELSE IF path = Root
    THEN {discord_guild_to_path(Guilds[id].name) : id \in DOMAIN Guilds}
    ELSE {discord_emoji_filename(remote[CollectionKey(path)][n]) :
             n \in DOMAIN remote[CollectionKey(path)]}

\* C7: a release or unlink whose request succeeded leaves no listing of the
\* collection in the cache, whatever the age of the one it found, and every
\* listing a readdir returns is what the backend holds at that moment.
C7_FreshListingAfterMutation ==
    /\ (/\ ret.op \in {"release", "unlink"}
        /\ ret.outcome = "ok"
        /\ \E i \in 1..Len(net) : Mutating(net[i])) => ListingGone
    /\ (ret.op = "readdir" /\ ret.outcome = "ok") =>
           ret.value = {Dot, DotDot} \cup ListedNow(ret.path)

C7_Witness ==
    /\ ret.op = "release"
    /\ ret.outcome = "ok"
    /\ \E i \in 1..Len(net) : Mutating(net[i])
    /\ ListingWasLive
    /\ now < ListingCache(ret.pre.meta, ret.pre.emojis)[CollectionKey(ret.path)].expires

\* an answer to _request that tells the client to come back later (the
\* emoji's bytes and lengths are fetched from the CDN without _request)
RateLimited(m) == m.status \in {"429", "429h"} /\ m.url.route # "cdn"

\* C8: a request answered with a rate limit is sent again, with the same
\* method, the same URL and the same arguments.
C8_RetrySendsSameRequest ==
    \A i \in 1..Len(net) :
        RateLimited(net[i]) =>
            /\ i < Len(net)
            /\ net[i + 1].method = net[i].method
            /\ net[i + 1].url = net[i].url
            /\ net[i + 1].args = net[i].args

\* C9: once release has run on a path with an open buffer, the path has no
\* buffer, however release ended.
C9_ReleaseDropsBuffer ==
    (ret.op = "release" /\ HadBuffer) => ret.path \notin DOMAIN write_buffers

\* C10: after a release, unlink or symlink that sent its request to change
\* the backend, the cache holds no listing of the collection, whether the
\* request succeeded or failed.
C10_InvalidatedOnFailureToo ==
    (/\ ret.op \in {"release", "unlink", "symlink"}
     /\ \E i \in 1..Len(net) : Mutating(net[i])) => ListingGone


\* C20: every path the Muxer hands to an adapter begins with '/'.
C20_DelegatedPathIsAbsolute ==
    (Constructed /\ Called /\ call.outcome = "delegated") =>
        /\ Len(call.fspath) >= 1
        /\ call.fspath[1] = Slash


\* the adapter's fields are what they were when the operation started
SameCaches ==
    /\ cached_metadata = ret.pre.meta
    /\ membership_cache = ret.pre.members
    /\ emojis_cache = ret.pre.emojis
SameBuffers == write_buffers = ret.pre.bufs

\* C16: release of a path without a buffer returns without a network call
\* and leaves the buffers, the listing caches and the retry times as they were.
C16_ReleaseWithoutBufferIsNoOp ==
    (ret.op = "release" /\ ~ HadBuffer) =>
        /\ ret.outcome = "ok"
        /\ net = <<>>
        /\ SameBuffers
        /\ SameCaches
        /\ retry_after = ret.pre.ra

\* release of a path without a buffer while no listing is cached
C16_Witness ==
    /\ ret.op = "release"
    /\ ~ HadBuffer
    /\ ret.outcome = "ok"
    /\ ret.pre.meta = EmptyDict
    /\ ret.pre.members = EmptyDict


\* an answer that is neither a success nor a rate limit
Failed(m) == m.status = "err"

\* C18: a request answered with a failure other than a rate limit is the
\* operation's last network call, the operation ends with the error, and the
\* retry times are what they were.
C18_FailureIsNotRetried ==
    \A i \in 1..Len(net) :
        (ret.op # "none" /\ Failed(net[i])) =>
            /\ i = Len(net)
            /\ ret.outcome = "HTTPError"
            /\ retry_after = ret.pre.ra

\* an operation whose second request was answered with a failure
C18_Witness ==
    /\ ret.op # "none"
    /\ Len(net) >= 2
    /\ Failed(net[Len(net)])
    /\ net[Len(net)].method = "POST"


\* the extensions of the images the backends take
ImageExtensions ==
    {<<106, 112, 103>>, <<106, 112, 101, 103>>, <<103, 105, 102>>, <<112, 110, 103>>}
\* the last segment of the path has one of them
HasImageExtension(path) ==
    LET name == rsplit1(path, Slash)[2]
    IN /\ Len(rsplit1(name, 46)) = 2
       /\ rsplit1(name, 46)[2] \in ImageExtensions

\* the guilds the first segment of the path names
NamedGuilds(path) ==
    {id \in DOMAIN Guilds : split_max(path, Slash, 2)[2] \in {id, Guilds[id].name}}
\* the collection of the path exists: Slack has the team's; Discord one per guild
CollectionExists(path) == backend = "slack" \/ NamedGuilds(path) # {}
\* the user may change it
CollectionWritable(path) ==
    \/ backend = "slack"
    \/ \E id \in NamedGuilds(path) : (Guilds[id].permissions \div 1073741824) % 2 = 1

\* what create has to answer for the path
CreateAnswer(path) ==
    IF ~ CollectionExists(path) THEN "ENOENT"
    ELSE IF ~ CollectionWritable(path) THEN "EPERM"
    ELSE IF ~ HasImageExtension(path) THEN "EINVAL"
    ELSE "ok"

\* C11: create opens an empty buffer only for an image name in an existing
\* collection the user may change; otherwise it fails with not-found,
\* permission-denied or invalid-argument (or with the error of the backend it
\* had to ask) and leaves the buffers as they were.
C11_CreateValidates ==
    ret.op = "create" =>
        /\ ret.outcome = "ok" =>
              /\ CreateAnswer(ret.path) = "ok"
              /\ write_buffers = Put(ret.pre.bufs, ret.path, <<>>)
        /\ ret.outcome # "ok" => SameBuffers
        /\ CreateAnswer(ret.path) # "ok" =>
              ret.outcome \in {CreateAnswer(ret.path), "HTTPError"}


\* the path names a whole collection: the team's at the root of the Slack
\* adapter, a guild's directory in the Discord adapter
IsCollectionPath(path) ==
    IF backend = "slack" THEN path = Root
    ELSE /\ discord_path_to_emojiname(path).none
         /\ NamedGuilds(path) # {}

\* C12: unlink of a path that names a whole collection fails with
\* permission-denied, sends no request that changes the backend, and leaves
\* the listing caches and the buffers as they were.
C12_UnlinkCollectionDenied ==
    (ret.op = "unlink" /\ IsCollectionPath(ret.path)) =>
        /\ ret.outcome = "EPERM"
        /\ \A i \in 1..Len(net) : ~ Mutating(net[i])
        /\ SameCaches
        /\ SameBuffers


\* C13: getattr of a path with an open buffer reports a regular file of mode
\* 0600 whose size is the length of the buffer; and that length is what the
\* writes and truncations made it: a write extends the buffer to the end of
\* the written bytes when that is past its end, a truncation cuts it to the
\* given length when that is before its end.
C13_BufferAttributes ==
    /\ (ret.op = "getattr" /\ HadBuffer) =>
          /\ ret.outcome = "ok"
          /\ ret.value.st_mode = S_IFREG + 384
          /\ ret.value.st_size = Len(ret.pre.bufs[ret.path])
    /\ (ret.op = "write" /\ HadBuffer) =>
          Len(write_buffers[ret.path])
              = Max2(Len(ret.pre.bufs[ret.path]), ret.args.offset + Len(ret.args.data))
    /\ (ret.op = "truncate" /\ HadBuffer /\ ret.outcome = "ok") =>
          Len(write_buffers[ret.path]) = Min2(Len(ret.pre.bufs[ret.path]), ret.args.length)

\* C17: getattr of the adapter's root or of a collection's directory, when the
\* backend did not fail, reports a directory of mode 0555, with the owner's
\* write bit exactly when the user may change the collection (the root of the
\* Discord adapter is no collection: with or without the bit).
C17_DirectoryAttributes ==
    (/\ ret.op = "getattr"
     /\ ret.path = Root \/ IsCollectionPath(ret.path)
     /\ ~ HadBuffer
     /\ ret.outcome # "HTTPError") =>
        /\ ret.outcome = "ok"
        /\ IF IsCollectionPath(ret.path)
           THEN ret.value.st_mode = S_IFDIR + 365
                    + (IF CollectionWritable(ret.path) THEN S_IWUSR ELSE 0)
           ELSE ret.value.st_mode \in {S_IFDIR + 365, S_IFDIR + 365 + S_IWUSR}


\* the path named an emoji of a guild when the operation started
WasEntityPath ==
    /\ ~ discord_path_to_emojiname(ret.path).none
    /\ \E id \in NamedGuilds(ret.path) :
           discord_path_to_emojiname(ret.path).name \in DOMAIN ret.pre.remote[id]
\* the path was the root, a guild's directory or a path with an open buffer
WasDirectoryOrBuffer == ret.path = Root \/ IsCollectionPath(ret.path) \/ HadBuffer

\* C14: in the adapter that defines them, when the backend did not fail:
\* listxattr of an emoji's path lists user.url and user.created_by and nothing
\* else, and getxattr of another name fails with no-such-attribute; on the
\* root, on a guild's directory and on a path with an open buffer listxattr
\* lists nothing and getxattr fails with no-such-attribute.
C14_XattrOnlyOnEntities ==
    (/\ backend = "discord"
     /\ ret.op \in {"listxattr", "getxattr"}
     /\ ret.outcome # "HTTPError") =>
        IF WasDirectoryOrBuffer
        THEN IF ret.op = "listxattr" THEN ret.outcome = "ok" /\ ret.value = {}
             ELSE ret.outcome = "ENODATA"
        ELSE WasEntityPath =>
                IF ret.op = "listxattr"
                THEN ret.outcome = "ok"
                     /\ ret.value = {URL_XATTR_NAME, CREATEDBY_XATTR_NAME}
                ELSE ret.args.name \notin {URL_XATTR_NAME, CREATEDBY_XATTR_NAME}
                        => ret.outcome = "ENODATA"


\* what readlink of the path has to answer, by the backend's listing
ReadlinkAnswer(path) ==
    LET listing == ret.pre.remote["team"]
        name == slack_path_to_name(path)
    IN IF name \notin DOMAIN listing THEN [outcome |-> "ENOENT", value |-> <<>>]
       ELSE IF ~ listing[name].is_alias THEN [outcome |-> "EINVAL", value |-> <<>>]
       ELSE [outcome |-> "ok",
             value |-> listing[name].alias_for \o <<46>> \o listing[name].ext]
\* readlink ended as it has to, unless the backend failed
ReadlinkAnswered ==
    ret.outcome # "HTTPError" =>
        /\ ret.outcome = ReadlinkAnswer(ret.path).outcome
        /\ ret.value = ReadlinkAnswer(ret.path).value

\* C15 as stated: in the adapter with aliases, readlink of an alias returns
\* the file name of the alias's target, of another emoji fails with
\* invalid-argument, of an unknown name with not-found; and in no case are the
\* caches or the buffers other than before.
C15_ReadlinkChangesNothing ==
    (backend = "slack" /\ ret.op = "readlink") =>
        /\ ReadlinkAnswered
        /\ SameCaches
        /\ SameBuffers

\* C15, amended: the answers are as stated and the buffers are as before; a
\* listing that was cached and unexpired is as before; without one, readlink
\* fetched the listing and the cache holds it, or the fetch failed and the
\* cache is empty.
C15_ReadlinkFillsCacheOnly ==
    (backend = "slack" /\ ret.op = "readlink") =>
        /\ ReadlinkAnswered
        /\ SameBuffers
        /\ membership_cache = ret.pre.members
        /\ emojis_cache = ret.pre.emojis
        /\ IF Live(ret.pre.meta, "self", ret.pre.now) THEN cached_metadata = ret.pre.meta
           ELSE IF ret.outcome = "HTTPError" THEN cached_metadata = EmptyDict
           ELSE /\ Live(cached_metadata, "self", now)
                /\ cached_metadata["self"].value = remote["team"]

\* readlink of an alias that had to fetch the listing
C15_Witness ==
    /\ backend = "slack"
    /\ ret.op = "readlink"
    /\ ret.outcome = "ok"
    /\ ret.value # slack_path_to_name(ret.path) \o <<46, 112, 110, 103>>
    /\ cached_metadata # ret.pre.meta


(***************************************************************************)
(* Properties of the operations on several threads.                        *)
(***************************************************************************)
\* the threads whose list request for the key is sent and not yet answered
InFlight(key) == {t \in Threads : threads[t].pc = "fetching" /\ threads[t].key = key}

\* C19: at no time are two list requests for the same key in flight.
C19_OneRefreshInFlight ==
    \A key \in ThreadKeys : Cardinality(InFlight(key)) <= 1


(***************************************************************************)
(* Further properties of the Muxer.                                        *)
(***************************************************************************)
\* the path is a mountpoint or lies below one
UnderMount(path, M) == path = M \/ startswith(path, M \o <<Slash>>)

\* C21: every operation on a path that is no intermediate and is a
\* mountpoint or lies below one reaches the adapter of that mountpoint under
\* its own name, with the path stripped of the mountpoint.
C21_EveryOperationDelegated ==
    \A M \in map_arg :
        (/\ Constructed
         /\ CalledAny
         /\ call.path \notin muxer.intermediates
         /\ UnderMount(call.path, M)) =>
            /\ call.outcome = "delegated"
            /\ call.fs = Adapter(M)
            /\ call.fspath = (IF call.path = M THEN <<Slash>>
                              ELSE SliceFrom(call.path, Len(M)))



(***************************************************************************)
(* Path resolution and the cached listings, beside a backend whose content *)
(* other clients change.                                                   *)
(***************************************************************************)
\* the paths that are resolved: guild x is unknown, g is guild 1, h guild 2
ResolvePaths ==
    {<<Slash, 120>>, <<Slash, 120, Slash>> \o e_png,
     <<Slash, 103>>, <<Slash, 103, Slash>>,
     <<Slash, 103, Slash>> \o e_png, <<Slash, 103, Slash, 101>>,
     <<Slash, 103, Slash>> \o f_gif, <<Slash, 103, Slash, 46, 112, 110, 103>>,
     <<Slash, 49, Slash>> \o e_png, <<Slash, 104, Slash>> \o e_png}

\* Discord._path_to_guildmoji, as the operations call it first
FsResolve ==
    \E path \in ResolvePaths, plan \in Plans :
        /\ backend = "discord"
        /\ Run("resolve", path, <<>>, discord_path_to_guildmoji(World(plan), path))

\* another client of the backend adds or removes the emoji f of the team, or
\* of guild 1: the adapter learns of it with its next list request
Elsewhere ==
    /\ ret = Idle
    /\ LET c == IF backend = "slack" THEN "team" ELSE WatchedGuild
       IN remote' = [remote EXCEPT ![c] =
                        IF <<102>> \in DOMAIN @ THEN Drop(@, <<102>>)
                        ELSE Put(@, <<102>>,
                                 IF backend = "slack" THEN SlackEmoji(<<102>>, <<>>)
                                 ELSE DiscordEmoji(<<102>>, TRUE))]
    /\ UNCHANGED <<backend, limited, now, write_buffers, cached_metadata, membership_cache,
                   emojis_cache, retry_after, bytes_cache, length_cache, net, ret, threads,
                   muxvars>>

\* Half a TTL passes between operations.  TTLCache keeps an expired entry in
\* its store until the next insertion; it only stops serving it.
Wait ==
    /\ ret = Idle
    /\ now + (TTL \div 2) <= MaxClock
    /\ now' = now + (TTL \div 2)
    /\ UNCHANGED <<backend, limited, write_buffers, cached_metadata, membership_cache,
                   emojis_cache, retry_after, bytes_cache, length_cache, remote, net, ret,
                   threads, muxvars>>

\* _get_all_emoji, _get_guilds or _get_emojis of guild 1, as the operations
\* call them
FsLookup ==
    \E key \in ThreadKeys, plan \in Plans :
        Run("lookup", Root, [key |-> key],
            CASE key = "meta" -> slack_get_all_emoji(World(plan))
              [] key = "members" -> discord_get_guilds(World(plan))
              [] key = "emojis" -> discord_get_emojis(World(plan), WatchedGuild))

\* Slack._request_all_pages for the emoji listing, as _get_all_emoji calls it
FsListPages ==
    \E plan \in Plans :
        /\ backend = "slack"
        /\ Run("request_all_pages", Root, [paged_key |-> "emoji"],
               slack_request_all_pages(World(plan), "GET", slack_url("emoji.adminList")))

NextLookup ==
    \/ FsLookup
    \/ FsListPages
    \/ FsResolve
    \/ FsReaddir
    \/ FsUnlink
    \/ Elsewhere
    \/ Wait
    \/ FsReturn

SpecLookup == Init /\ [][NextLookup]_allvars

\* the entity segment of the path: what follows the second slash
EntitySegment(path) ==
    LET sp == split_max(path, Slash, 2) IN IF Len(sp) < 3 THEN <<>> ELSE sp[3]
\* the listing of guild id that the adapter had, or was about to fetch
ListingBefore(id) ==
    IF Live(ret.pre.emojis, id, ret.pre.now) THEN ret.pre.emojis[id].value
    ELSE ret.pre.remote[id]

\* C22: path resolution answers (none, none) for an unknown guild, (guild,
\* none) for a guild with no or an empty entity segment, (guild, emoji) when
\* the segment without its extension names an emoji of the guild's listing,
\* and not-found for any other non-empty segment below a guild.
C22_ResolutionCases ==
    (ret.op = "resolve" /\ ret.outcome # "HTTPError") =>
        LET ids == NamedGuilds(ret.path)
            seg == EntitySegment(ret.path)
            eh == before_first(seg, 46)
        IN /\ ids = {} => ret.outcome = "ok" /\ ret.value = <<None, None>>
           /\ (ids # {} /\ seg = <<>>) =>
                 /\ ret.outcome = "ok"
                 /\ \E id \in ids : ret.value = <<Guilds[id], None>>
           /\ (ids # {} /\ seg # <<>>) =>
                 \E id \in ids :
                     IF eh \in DOMAIN ListingBefore(id)
                     THEN /\ ret.outcome = "ok"
                          /\ ret.value = <<Guilds[id], ListingBefore(id)[eh]>>
                     ELSE ret.outcome = "ENOENT"

\* the entry of the listing under the key when the operation started: a
\* sequence of none or one
EntryBefore(key) ==
    CASE key = "meta" ->
             IF "self" \in DOMAIN ret.pre.meta THEN <<ret.pre.meta["self"]>> ELSE <<>>
      [] key = "members" ->
             IF "()" \in DOMAIN ret.pre.members THEN <<ret.pre.members["()"]>> ELSE <<>>
      [] key = "emojis" ->
             IF WatchedGuild \in DOMAIN ret.pre.emojis
             THEN <<ret.pre.emojis[WatchedGuild]>> ELSE <<>>
\* the entry under the key now
EntryNow(key) ==
    CASE key = "meta" -> cached_metadata["self"]
      [] key = "members" -> membership_cache["()"]
      [] key = "emojis" -> emojis_cache[WatchedGuild]
\* the time since the entry was stored
Elapsed(entry) == ret.pre.now - (entry.expires - TTL)
\* the requests of the operation that begin a listing: a paginated listing
\* begins with its page 0
ListCalls ==
    {i \in 1..Len(net) :
        /\ net[i].method = "GET"
        /\ "params" \in DOMAIN net[i].args => net[i].args.params.page = 0}

\* C23: a lookup that finds an entry stored less than the TTL ago sends no
\* request, returns the stored value and leaves the caches alone; one that
\* finds an entry stored the TTL ago or earlier makes exactly one list call
\* (all pages of one listing) and, when that is answered, returns the
\* backend's listing and stores it as the whole new entry.
C23_HitWithinTtlElseRefresh ==
    (ret.op = "lookup" /\ EntryBefore(ret.args.key) # <<>>) =>
        LET key == ret.args.key
            old == EntryBefore(key)[1]
        IN IF Elapsed(old) < TTL
           THEN /\ net = <<>>
                /\ ret.outcome = "ok"
                /\ ret.value = old.value
                /\ SameCaches
           ELSE /\ Cardinality(ListCalls) = 1
                /\ \A i \in 1..Len(net) : net[i].method = "GET"
                /\ ret.outcome = "ok" =>
                      /\ ret.value = listed(key)
                      /\ EntryNow(key) = Stored(listed(key), now)

\* an expired entry was found and replaced by a listing that differs from it
C23_Witness ==
    /\ ret.op = "lookup"
    /\ ret.outcome = "ok"
    /\ EntryBefore(ret.args.key) # <<>>
    /\ Elapsed(EntryBefore(ret.args.key)[1]) >= TTL
    /\ EntryBefore(ret.args.key)[1].value # ret.value
\* the emoji of the team when the operation started, in the backend's order
TeamBefore ==
    LET names == sorted(DOMAIN ret.pre.remote["team"])
    IN [i \in 1..Len(names) |-> ret.pre.remote["team"][names[i]]]

\* C24: the paginated request asks for the pages 0, 1, 2, ... in this order,
\* fetches at least one page, and when every page is answered has made as
\* many calls as the backend reports pages (one if it reports none) and
\* returns the items of all pages in the order fetched.
C24_AllPagesInOrder ==
    ret.op = "request_all_pages" =>
        /\ Len(net) >= 1
        /\ \A i \in 1..Len(net) :
               /\ net[i].method = "GET"
               /\ net[i].url = slack_url("emoji.adminList")
               /\ net[i].args.params.page = i - 1
        /\ ret.outcome = "ok" =>
               /\ Len(net) = Max2(1, Len(TeamBefore))
               /\ ret.value = TeamBefore

\* a listing of two pages was fetched
C24_Witness ==
    /\ ret.op = "request_all_pages"
    /\ ret.outcome = "ok"
    /\ Len(net) = 2
    /\ Len(ret.value) = 2
(* Properties of the write buffers. *)
\* the bytes a buffer has to hold after data was written at offset into old
Written(old, offset, data) ==
    [i \in 1..Max2(Len(old), offset + Len(data)) |->
        IF i > offset /\ i <= offset + Len(data) THEN data[i - offset]
        ELSE IF i <= Len(old) THEN old[i]
        ELSE 0]
\* write or truncate was called on a path that had a buffer
OnOpenBuffer(op) == ret.op = op /\ ret.path \in DOMAIN ret.pre.bufs
\* truncate to a length within the buffer keeps exactly the first bytes
TruncateKeepsPrefix ==
    (OnOpenBuffer("truncate") /\ backend = "slack"
        /\ ret.args.length <= Len(ret.pre.bufs[ret.path])) =>
        /\ ret.outcome = "ok"
        /\ write_buffers[ret.path] = SubSeq(ret.pre.bufs[ret.path], 1, ret.args.length)

C26_CreateReplacesBuffer ==
    /\ \A p \in DOMAIN write_buffers : write_buffers[p] \in Seq(Bytes)
    /\ (ret.op = "create" /\ ret.outcome = "ok") =>
           /\ DOMAIN write_buffers = DOMAIN ret.pre.bufs \cup {ret.path}
           /\ write_buffers[ret.path] = <<>>
           /\ \A p \in DOMAIN ret.pre.bufs \ {ret.path} : write_buffers[p] = ret.pre.bufs[p]

\* a path with written bytes was created again, beside another open buffer
C26_Witness ==
    /\ ret.op = "create"
    /\ ret.outcome = "ok"
    /\ HadBuffer
    /\ ret.pre.bufs[ret.path] # <<>>
    /\ DOMAIN ret.pre.bufs # {ret.path}
(* Properties of the retries. *)
\* the least retry time an answer asks for: the default after an answer
\* without hint, later than the answer after one with a hint
AskedRetryTime(m) == IF m.status = "429" THEN m.at + DefaultRetry ELSE m.at + 1

\* C27: after a rate-limited answer the retry time of its target is on
\* record, the time of the answer plus the hint or plus 60 s; the automatic
\* retry and every later call to the target are sent at or after the retry
\* time on record for it.
C27_RetryTimeRecordedAndAwaited ==
    \A i \in 1..Len(net) :
        /\ RateLimited(net[i]) =>
               /\ net[i].url \in DOMAIN retry_after
               /\ retry_after[net[i].url] >= AskedRetryTime(net[i])
               /\ i < Len(net) => net[i + 1].at >= AskedRetryTime(net[i])
        /\ net[i].url \in DOMAIN ret.pre.ra => net[i].at >= ret.pre.ra[net[i].url]
        /\ \A j \in 1..(i - 1) :
               (RateLimited(net[j]) /\ net[j].url = net[i].url) =>
                   net[i].at >= AskedRetryTime(net[j])
\* C28: every upload that a release sends, the first attempt and each retry
\* after a rate-limited answer, carries the whole content of the buffer; the
\* attempt that succeeds does not deliver an empty or shortened image.
C28_RetriedUploadCarriesBuffer ==
    (ret.op = "release" /\ HadBuffer) =>
        \A i \in Uploads :
            (i = 1 \/ RateLimited(net[i - 1]) \/ net[i].status = "ok") =>
                UploadedImage(net[i]) = ret.pre.bufs[ret.path]
\* C29: a request that was answered with a rate limit is sent again to its
\* target until the backend answers it otherwise, with success or with a
\* failure of its own; the operation does not end on the rate limit.
C29_RetriedUntilAnswered ==
    \A i \in 1..Len(net) :
        RateLimited(net[i]) =>
            /\ \E j \in (i + 1)..Len(net) :
                   /\ net[j].slot = net[i].slot
                   /\ net[j].url = net[i].url
                   /\ ~ RateLimited(net[j])
            /\ ret.outcome # "TypeError"
\* the threads that are changing the collection of the key: their request is
\* sent, and the listing not yet invalidated
Mutators(key) ==
    {t \in Threads : threads[t].pc \in {"mutating", "mutated"} /\ threads[t].key = key}

\* C30: once every commit and remove on a collection has invalidated the
\* listing and returned, a lookup is not served from the cache a listing
\* that differs from the backend's: no refresh that began before the
\* invalidation puts the listing it fetched back.
C30_NoStaleListingAfterInvalidation ==
    \A key \in MutableKeys :
        (Mutators(key) = {} /\ cached_live(key)) => cached_value(key) = listed(key)


(***************************************************************************)
(* The write buffers under several threads.  The handlers test             *)
(* `path in self._write_buffers`, fetch `self._write_buffers[path]` and    *)
(* use the BytesIO in separate steps, and release closes the BytesIO and   *)
(* deletes the entry at its end; no lock is held, so the steps of threads  *)
(* interleave.  One file is open from the start and is not created again,  *)
(* so its BytesIO is closed once a releasing thread has passed b.close().  *)
(***************************************************************************)
Resting == [pc |-> "idle", op |-> "none", outcome |-> "none"]
\* the file is open for writing
HasBuffer == NewFile \in DOMAIN write_buffers
\* b.close() was called on its BytesIO
BufferClosed == ~ HasBuffer \/ \E t \in Threads : threads[t].pc = "closed"
\* the thread's operation ends
Ended(t, outcome) == [pc |-> "idle", op |-> threads[t].op, outcome |-> outcome]
\* the adapter's fields other than the buffers stay as they are
OnlyBuffers ==
    UNCHANGED <<backend, limited, now, cached_metadata, membership_cache, emojis_cache,
                retry_after, bytes_cache, length_cache, remote, net, ret, muxvars>>

\* read, getattr (past its listing) or release begins with the test
\* `if path in self._write_buffers`; without a buffer read and getattr go on
\* to resolve the path at the backend, and release returns
BufferTest(t) ==
    \E op \in {"read", "getattr", "release"} :
        /\ threads[t].pc = "idle"
        /\ threads' = [threads EXCEPT ![t] =
                           IF HasBuffer THEN [pc |-> "found", op |-> op, outcome |-> "none"]
                           ELSE [pc |-> "idle", op |-> op,
                                 outcome |-> IF op = "release" THEN "ok" ELSE "resolved"]]
        /\ UNCHANGED write_buffers
        /\ OnlyBuffers

\* self._write_buffers[path]: after the test, or at once in write
BufferFetch(t) ==
    /\ \/ threads[t].pc = "found"
       \/ threads[t].pc = "idle"
    /\ threads' = [threads EXCEPT ![t] =
                       LET op == IF @.pc = "idle" THEN "write" ELSE @.op
                       IN IF HasBuffer THEN [pc |-> "holding", op |-> op, outcome |-> "none"]
                          ELSE [pc |-> "idle", op |-> op, outcome |-> "KeyError"]]
    /\ UNCHANGED write_buffers
    /\ OnlyBuffers

\* the BytesIO is used: b.seek(offset) and b.read or b.write; b.getbuffer();
\* in release b.seek(0), then the upload is on its way
BufferUse(t) ==
    \E data \in {<<1>>} :
        /\ threads[t].pc = "holding"
        /\ threads' = [threads EXCEPT ![t] =
                           IF BufferClosed THEN Ended(t, "ValueError")
                           ELSE IF @.op = "release" THEN [@ EXCEPT !.pc = "uploading"]
                           ELSE Ended(t, "ok")]
        /\ write_buffers' =
               IF ~ BufferClosed /\ threads[t].op = "write"
               THEN [write_buffers EXCEPT ![NewFile] = bytesio_write(@, 0, data)]
               ELSE write_buffers
        /\ OnlyBuffers

\* release, in its finally: b.close()
ReleaseClose(t) ==
    /\ threads[t].pc = "uploading"
    /\ threads' = [threads EXCEPT ![t] = [@ EXCEPT !.pc = "closed"]]
    /\ UNCHANGED write_buffers
    /\ OnlyBuffers

\* and del self._write_buffers[path]
ReleaseDelete(t) ==
    /\ threads[t].pc = "closed"
    /\ threads' = [threads EXCEPT ![t] = Ended(t, IF HasBuffer THEN "ok" ELSE "KeyError")]
    /\ write_buffers' = Drop(write_buffers, NewFile)
    /\ OnlyBuffers

InitBuffers ==
    /\ threads = [t \in Threads |-> Resting]
    /\ \E b \in {"slack", "discord"}, data \in Contents :
           Loaded(Opened(b, IF b = "slack" THEN <<Slash>> \o f_gif
                            ELSE <<Slash, 103, Slash>> \o f_gif, data), b, FALSE)

NextBuffers ==
    \/ \E t \in Threads : BufferTest(t)
    \/ \E t \in Threads : BufferFetch(t)
    \/ \E t \in Threads : BufferUse(t)
    \/ \E t \in Threads : ReleaseClose(t)
    \/ \E t \in Threads : ReleaseDelete(t)

SpecBuffers == InitBuffers /\ [][NextBuffers]_allvars

\* C31: a read, getattr or write that runs beside a release of its path ends
\* on the open buffer or goes on to the backend; it never ends with the
\* error of a buffer that is gone from the map (KeyError) or closed
\* (ValueError).
C31_NoErrorFromReleasedBuffer ==
    \A t \in Threads :
        threads[t].op \in {"read", "getattr", "write"} =>
            threads[t].outcome \notin {"KeyError", "ValueError"}



(***************************************************************************)
(* The names of the guilds.  The backend chooses the guilds' names: they   *)
(* need not differ, and may hold any character.  The listing is in the     *)
(* membership cache, as _get_guilds stored it.                             *)
(***************************************************************************)
\* names of one or two characters out of '/', '_', '2' and 'g'
GuildNames == UNION {[1..n -> {Slash, 95, 50, 103}] : n \in 1..2}
\* the listings of guild 1 alone, and of guild 1 and guild 2
Listings ==
    {[id \in ids |-> [id |-> id, name |-> names[id], permissions |-> 1073741824]] :
        ids \in {{<<49>>}, {<<49>>, <<50>>}}, names \in [{<<49>>, <<50>>} -> GuildNames]}

InitNames ==
    /\ threads = <<>>
    /\ \E listing \in Listings :
           Loaded([Fresh("discord") EXCEPT !.members = Put(@, "()", Stored(listing, 0))],
                  "discord", FALSE)

\* the directory name that readdir('/') renders for guild id is resolved by
\* _path_to_guild
FsResolveGuild ==
    \E id \in DOMAIN membership_cache["()"].value :
        LET path == <<Slash>> \o discord_guild_to_path(membership_cache["()"].value[id].name)
        IN Run("path_to_guild", path, [id |-> id], discord_path_to_guild(World(AllOk), path))

NextNames ==
    \/ FsResolveGuild
    \/ FsReaddir
    \/ FsReturn

SpecNames == InitNames /\ [][NextNames]_allvars

\* C32: the directory name rendered for a guild of the listing resolves to
\* that guild, and no other guild of the listing is rendered under it.
C32_RenderedNameResolvesToGuild ==
    ret.op = "path_to_guild" =>
        LET listing == ret.pre.members["()"].value
            g == listing[ret.args.id]
        IN /\ ret.outcome = "ok"
           /\ ret.value = g
           /\ \A o \in DOMAIN listing :
                  discord_guild_to_path(listing[o].name) = discord_guild_to_path(g.name)
                      => o = ret.args.id



(***************************************************************************)
(* The names of the entities and their filenames.                          *)
(***************************************************************************)
\* names the backends give to emoji: letters and '_', no '.', no '/'
EmojiNames == {<<101>>, <<102>>, <<101, 95>>}
\* what the backend holds: some emoji of these names in the team, or in guild 1
Holding(b, names, animated) ==
    IF b = "slack"
    THEN Put(EmptyDict, "team", [n \in names |-> SlackEmoji(n, <<>>)])
    ELSE [id \in DOMAIN Guilds |->
             IF id = WatchedGuild THEN [n \in names |-> DiscordEmoji(n, animated)]
             ELSE EmptyDict]

InitFilenames ==
    /\ threads = <<>>
    /\ \E b \in {"slack", "discord"}, names \in SUBSET EmojiNames \ {{}}, animated \in BOOLEAN :
           Loaded([Fresh(b) EXCEPT !.remote = Holding(b, names, animated)], b, FALSE)

\* the collection whose files are named: the team, or guild g
Collection == IF backend = "slack" THEN <<Slash>> ELSE <<Slash, 103, Slash>>
\* the filename that readdir emits for an emoji of the collection
EmittedFilename(e) ==
    IF backend = "slack" THEN slack_emoji_to_filename(e, <<>>) ELSE discord_emoji_filename(e)
\* the emoji of the collection
Entities ==
    LET listing == IF backend = "slack" THEN remote["team"] ELSE remote[WatchedGuild]
    IN {listing[n] : n \in DOMAIN listing}
\* the filenames that are looked up: those emitted, those with a further
\* suffix in front of the extension (e.old.png), and those without extension
Filenames ==
    UNION {{EmittedFilename(e), e.name \o <<46, 111, 108, 100, 46, 112, 110, 103>>, e.name} :
              e \in Entities}

\* _path_to_name / _path_to_emojiname, as getattr, read and unlink call it
FsPathToName ==
    \E file \in Filenames :
        Run("path_to_name", Collection \o file, [file |-> file],
            Done(World(AllOk),
                 IF backend = "slack" THEN slack_path_to_name(Collection \o file)
                 ELSE discord_path_to_emojiname(Collection \o file).name))

NextFilenames ==
    \/ FsPathToName
    \/ FsReaddir
    \/ FsReturn

SpecFilenames == InitFilenames /\ [][NextFilenames]_allvars

\* a filename with a single trailing extension removed
WithoutExtension(file) == rsplit1(file, 46)[1]

\* C33: the filename emitted for an emoji maps back to the name of that
\* emoji, and the name of any filename is the filename without its single
\* trailing extension.
C33_FilenameMapsBackToName ==
    ret.op = "path_to_name" =>
        /\ \A e \in Entities : ret.args.file = EmittedFilename(e) => ret.value = e.name
        /\ ret.value = WithoutExtension(ret.args.file)

=============================================================================
